---- MODULE Spec2Model ----
(***************************************************************************)
(* Model of the insurance-claim pipeline of insurance_claim_web_app:       *)
(* the claim store and its endpoints (backend/api/claims.py), the document *)
(* classifier, the keyword extractor and the liability evaluator           *)
(* (backend/services).                                                     *)
(*                                                                         *)
(* Representation.                                                         *)
(*  - A Python str is a sequence of characters.  An ASCII character is the *)
(*    one-character string itself; any other character is "uXXXX", its     *)
(*    code point (the module text stays ASCII).  The text each literal     *)
(*    stands for is given in the comment beside it.                        *)
(*  - Money is an integer number of cents (1/100 yuan).                    *)
(*  - The evaluator's confidence and the confidence of an extracted field  *)
(*    are integer numbers of hundredths (0.9 is 90); the classifier's      *)
(*    confidence and the extraction accuracy are fractions [n, d].         *)
(*    Decimal arithmetic is exact in the model; the code's binary          *)
(*    floating point differs from it by rounding error only, and where     *)
(*    that error decides a result (a rounding tie of the payout) the       *)
(*    model leaves the outcome open (round_tie_up).                        *)
(*  - The current time (datetime.now()) is `now`, the proleptic Gregorian  *)
(*    ordinal of today's date.                                             *)
(***************************************************************************)
EXTENDS Integers, Sequences, FiniteSets, Bags, TLC

VARIABLES
    claims_storage,   \* api/claims.py: claim id -> claim record
    tasks,            \* background tasks added and not yet run (a bag)
    response,         \* the latest response: the claim id asked for, the status code
    core_input,       \* the input of the component under test (SpecCore)
    core_output,      \* its latest result, or None
    core_previous,    \* the result before the latest one, or None
    now,              \* datetime.now(): ordinal of the current date
    round_tie_up      \* direction binary floating point takes on a rounding tie

vars == <<claims_storage, tasks, response, core_input, core_output,
          core_previous, now, round_tie_up>>

store_vars == <<claims_storage, tasks, response>>
core_vars == <<core_input, core_output, core_previous, round_tie_up>>

(***************************************************************************)
(* Python str operations                                                   *)
(***************************************************************************)

UpperCase == <<"A", "B", "C", "D", "E", "F", "G", "H", "I", "J", "K", "L", "M",
               "N", "O", "P", "Q", "R", "S", "T", "U", "V", "W", "X", "Y", "Z">>
LowerCase == <<"a", "b", "c", "d", "e", "f", "g", "h", "i", "j", "k", "l", "m",
               "n", "o", "p", "q", "r", "s", "t", "u", "v", "w", "x", "y", "z">>

Digits == {"0", "1", "2", "3", "4", "5", "6", "7", "8", "9"}

\* str.lower() on one character: A-Z map to a-z, everything else is unchanged.
LowerOf == [c \in {UpperCase[i] : i \in 1..26} |-> LowerCase[CHOOSE i \in 1..26 : UpperCase[i] = c]]

LowerChar(c) == IF c \in DOMAIN LowerOf THEN LowerOf[c] ELSE c

\* s.lower()
Lower(s) == [i \in 1..Len(s) |-> LowerChar(s[i])]

\* p in s
Contains(s, p) ==
    \E i \in 0..(Len(s) - Len(p)) : SubSeq(s, i + 1, i + Len(p)) = p

\* s.replace(old, new) for a one-character old
RECURSIVE Replace(_, _, _)
Replace(s, old, new) ==
    IF s = <<>> THEN <<>>
    ELSE (IF Head(s) = old THEN new ELSE <<Head(s)>>)
         \o Replace(Tail(s), old, new)

\* s.isdigit()
IsDigit(s) == s # <<>> /\ \A i \in 1..Len(s) : s[i] \in Digits

DigitValue(c) == CHOOSE v \in 0..9 : <<"0", "1", "2", "3", "4", "5", "6", "7", "8", "9">>[v + 1] = c

\* int(s) of a string of digits
RECURSIVE ToInt(_)
ToInt(s) ==
    IF s = <<>> THEN 0
    ELSE 10 * ToInt(SubSeq(s, 1, Len(s) - 1)) + DigitValue(s[Len(s)])

RECURSIVE Pow10(_)
Pow10(n) == IF n = 0 THEN 1 ELSE 10 * Pow10(n - 1)

\* the longest prefix of s made of digits
RECURSIVE DigitRun(_)
DigitRun(s) ==
    IF s # <<>> /\ Head(s) \in Digits THEN <<Head(s)>> \o DigitRun(Tail(s))
    ELSE <<>>

Min(a, b) == IF a <= b THEN a ELSE b
Max(a, b) == IF a >= b THEN a ELSE b

\* s with its first n characters dropped
Drop(s, n) == SubSeq(s, n + 1, Len(s))

(***************************************************************************)
(* re.findall(r'\d+(?:\.\d+)?', s): the first match, as the decimal        *)
(* num / 10^fd it denotes (float(numbers[0])), or NoNumber when the list   *)
(* is empty.                                                               *)
(***************************************************************************)
NoNumber == [num |-> -1, fd |-> 0]

RECURSIVE FirstNumber(_)
FirstNumber(s) ==
    IF s = <<>> THEN NoNumber
    ELSE IF Head(s) \notin Digits THEN FirstNumber(Tail(s))
    ELSE LET ip == DigitRun(s)
             rest == Drop(s, Len(ip))
             fp == IF rest # <<>> /\ Head(rest) = "." THEN DigitRun(Tail(rest))
                   ELSE <<>>
         IN [num |-> ToInt(ip \o fp), fd |-> Len(fp)]

(***************************************************************************)
(* datetime.strptime(s, "%Y-%m-%d") and datetime arithmetic                *)
(***************************************************************************)

\* s.split(sep) for a one-character sep
RECURSIVE Split(_, _)
Split(s, sep) ==
    IF \A i \in 1..Len(s) : s[i] # sep THEN <<s>>
    ELSE LET k == CHOOSE i \in 1..Len(s) :
                      s[i] = sep /\ \A j \in 1..(i - 1) : s[j] # sep
         IN <<SubSeq(s, 1, k - 1)>> \o Split(Drop(s, k), sep)

IsLeap(y) == (y % 4 = 0 /\ y % 100 # 0) \/ y % 400 = 0

DaysInMonth(y, m) ==
    IF m = 2 THEN (IF IsLeap(y) THEN 29 ELSE 28)
    ELSE IF m \in {4, 6, 9, 11} THEN 30 ELSE 31

RECURSIVE DaysBeforeMonth(_, _)
DaysBeforeMonth(y, m) ==
    IF m = 1 THEN 0 ELSE DaysBeforeMonth(y, m - 1) + DaysInMonth(y, m - 1)

\* date(y, m, d).toordinal()
ToOrdinal(y, m, d) ==
    365 * (y - 1) + ((y - 1) \div 4) - ((y - 1) \div 100) + ((y - 1) \div 400)
    + DaysBeforeMonth(y, m) + d

\* %m: 1[0-2]|0[1-9]|[1-9]
IsMonthToken(t) ==
    /\ IsDigit(t) /\ Len(t) \in {1, 2}
    /\ ToInt(t) \in 1..12
\* %d: 3[01]|[12]\d|0[1-9]|[1-9]| [1-9]
IsDayToken(t) ==
    \/ IsDigit(t) /\ Len(t) \in {1, 2} /\ ToInt(t) \in 1..31
    \/ Len(t) = 2 /\ t[1] = " " /\ t[2] \in (Digits \ {"0"})
DayValue(t) == IF t[1] = " " THEN DigitValue(t[2]) ELSE ToInt(t)

NoDate == -1

\* The ordinal of the date s denotes in the format %Y-%m-%d, or NoDate when
\* strptime raises ValueError (no match, unconverted data, impossible date).
Strptime(s) ==
    LET parts == Split(s, "-")
    IN IF /\ Len(parts) = 3
          /\ IsDigit(parts[1]) /\ Len(parts[1]) = 4 /\ ToInt(parts[1]) >= 1
          /\ IsMonthToken(parts[2])
          /\ IsDayToken(parts[3])
          /\ DayValue(parts[3]) <= DaysInMonth(ToInt(parts[1]), ToInt(parts[2]))
       THEN ToOrdinal(ToInt(parts[1]), ToInt(parts[2]), DayValue(parts[3]))
       ELSE NoDate

(***************************************************************************)
(* Liability evaluator: services/liability_evaluator.py                    *)
(***************************************************************************)

\* An Optional value is None or Some(v).
None == <<>>
Some(v) == <<v>>

\* Keys of a policy's "limits" dict.
AnnualLimitKey == "annual_limit"      \* "年度报销上限"
PerStayLimitKey == "per_stay_limit"   \* "单次住院上限"
SelfPayRatioKey == "self_pay_ratio"   \* "自付比例"

\* self.policy_terms_db.  Limits are in yuan; the self-pay ratio 0.1 is held
\* in hundredths (10).
policy_terms_db ==
    [health_insurance_basic |->
        [name |-> <<"u57FA", "u672C", "u533B", "u7597", "u4FDD", "u9669">>,  \* 基本医疗保险
         coverage |-> << <<"u4F4F", "u9662", "u8D39", "u7528">>,             \* 住院费用
                         <<"u624B", "u672F", "u8D39", "u7528">>,             \* 手术费用
                         <<"u836F", "u54C1", "u8D39", "u7528", "(", "u533B", "u4FDD",
                           "u76EE", "u5F55", "u5185", ")">> >>,              \* 药品费用(医保目录内)
         exclusions |-> << <<"u65E2", "u5F80", "u75C7">>,                    \* 既往症
                           <<"u7F8E", "u5BB9", "u624B", "u672F">>,           \* 美容手术
                           <<"u7259", "u79D1", "u6CBB", "u7597">>,           \* 牙科治疗
                           <<"u751F", "u80B2", "u76F8", "u5173">> >>,        \* 生育相关
         limits |-> [annual_limit |-> 100000, per_stay_limit |-> 30000,
                     self_pay_ratio |-> 10],
         waiting_period |-> 30],
     accident_insurance |->
        [name |-> <<"u610F", "u5916", "u4F24", "u5BB3", "u4FDD", "u9669">>,  \* 意外伤害保险
         coverage |-> << <<"u610F", "u5916", "u8EAB", "u6545">>,             \* 意外身故
                         <<"u610F", "u5916", "u4F24", "u6B8B">>,             \* 意外伤残
                         <<"u610F", "u5916", "u533B", "u7597", "u8D39", "u7528">> >>,  \* 意外医疗费用
         exclusions |-> << <<"u81EA", "u6740">>,                             \* 自杀
                           <<"u9152", "u9A7E">>,                             \* 酒驾
                           <<"u6218", "u4E89">>,                             \* 战争
                           <<"u9AD8", "u98CE", "u9669", "u8FD0", "u52A8">> >>,  \* 高风险运动
         limits |-> [accidental_death |-> 500000, accidental_medical |-> 50000],
         waiting_period |-> 0]]

\* fields.get(name, {}).get("value", default)
FieldValue(fields, name, default) ==
    IF name \in DOMAIN fields THEN fields[name].value ELSE default

\* _get_claim_data: the stub returns ([], []) for every claim id.
get_claim_data(claim_id) ==
    [extraction_results |-> <<>>, classification_results |-> <<>>]

\* The fields of a document list, in order: result by result, field by field.
RECURSIVE AllFields(_)
AllFields(extraction_results) ==
    IF extraction_results = <<>> THEN <<>>
    ELSE Head(extraction_results).extracted_fields
         \o AllFields(Tail(extraction_results))

\* _merge_extraction_results: merged_fields[field_name] is assigned for each
\* field in order, so a later assignment replaces an earlier one.
RECURSIVE MergeFields(_, _)
MergeFields(merged_fields, fs) ==
    IF fs = <<>> THEN merged_fields
    ELSE LET f == Head(fs)
             entry == [value |-> f.field_value, confidence |-> f.confidence]
             keys == DOMAIN merged_fields \cup {f.field_name}
         IN MergeFields([k \in keys |-> IF k = f.field_name THEN entry
                                        ELSE merged_fields[k]],
                        Tail(fs))

EmptyFields == [k \in {} |-> None]

\* _merge_extraction_results keeping the first field of each name
merge_extraction_results_first_wins(extraction_results) ==
    LET fs == AllFields(extraction_results)
        names == {fs[i].field_name : i \in 1..Len(fs)}
        first(name) == CHOOSE i \in 1..Len(fs) :
                           /\ fs[i].field_name = name
                           /\ \A j \in 1..(i - 1) : fs[j].field_name # name
    IN  [name \in names |-> [value |-> fs[first(name)].field_value,
                             confidence |-> fs[first(name)].confidence]]

merge_extraction_results(extraction_results) ==
    MergeFields(EmptyFields, AllFields(extraction_results))

\* _parse_policy_terms choosing the accident policy when terms are given
parse_policy_terms_by_contract(contract_terms) ==
    IF contract_terms # None /\ contract_terms[1] # <<>>
    THEN policy_terms_db.accident_insurance
    ELSE policy_terms_db.health_insurance_basic

\* _parse_policy_terms: both branches return the basic health policy.
parse_policy_terms(contract_terms) ==
    IF contract_terms # None /\ contract_terms[1] # <<>>
    THEN policy_terms_db.health_insurance_basic
    ELSE policy_terms_db.health_insurance_basic

\* "缺少诊断信息,无法确认是否在保障范围内"
MissingDiagnosisIssue == "missing diagnosis: coverage cannot be confirmed"

\* check_coverage as the comments of the code intend it: covered when the
\* diagnosis names an item of the policy's coverage list
check_coverage_by_list(fields, policy_info) ==
    LET diagnosis == FieldValue(fields, "diagnosis", <<>>)
    IN IF diagnosis # <<>>
          /\ \E i \in 1..Len(policy_info.coverage) :
                 Contains(diagnosis, policy_info.coverage[i])
       THEN [is_covered |-> TRUE, issues |-> <<>>]
       ELSE [is_covered |-> FALSE, issues |-> <<MissingDiagnosisIssue>>]

\* _check_coverage: (is_covered, issues)
check_coverage(fields, policy_info) ==
    LET diagnosis == FieldValue(fields, "diagnosis", <<>>)
    IN IF diagnosis # <<>>
       THEN [is_covered |-> TRUE, issues |-> <<>>]
       ELSE [is_covered |-> FALSE, issues |-> <<MissingDiagnosisIssue>>]

\* the loop of _check_exclusions over the policy's exclusion list
RECURSIVE ExclusionLoop(_, _, _)
ExclusionLoop(exclusions, diagnosis, treatment) ==
    IF exclusions = <<>> THEN <<>>
    ELSE LET exclusion == Head(exclusions)
         IN (IF Contains(diagnosis, Lower(exclusion))
                \/ Contains(treatment, Lower(exclusion))
             THEN <<exclusion>> ELSE <<>>)
            \o ExclusionLoop(Tail(exclusions), diagnosis, treatment)

\* check_exclusions comparing the labels as written (not lower-cased)
check_exclusions_case_sensitive(fields, policy_info) ==
    LET diagnosis == Lower(FieldValue(fields, "diagnosis", <<>>))
        treatment == Lower(FieldValue(fields, "treatment_details", <<>>))
    IN SelectSeq(policy_info.exclusions,
                 LAMBDA x : Contains(diagnosis, x) \/ Contains(treatment, x))

\* _check_exclusions
check_exclusions(fields, policy_info) ==
    LET diagnosis == Lower(FieldValue(fields, "diagnosis", <<>>))
        treatment == Lower(FieldValue(fields, "treatment_details", <<>>))
    IN ExclusionLoop(policy_info.exclusions, diagnosis, treatment)

Female == <<"u5973">>                                  \* "女"
PregnancyKeywords == { <<"u5B55">>, <<"u4EA7">>, <<"u5987", "u79D1">> }  \* 孕, 产, 妇科
Antibiotic == <<"u6297", "u751F", "u7D20">>            \* "抗生素"
Infection == <<"u611F", "u67D3">>                      \* "感染"
Inflammation == <<"u708E", "u75C7">>                   \* "炎症"
YearChar == "u5E74"                                    \* "年"
MonthChar == "u6708"                                   \* "月"
DayChar == "u65E5"                                     \* "日"

\* age // 365 of the days elapsed since the birth date
AgeFromBirthDate(birth_ordinal, today) == (today - birth_ordinal) \div 365

AdultAge == 18

\* _check_gender_age_inconsistency; `today` is datetime.now()
check_gender_age_inconsistency(fields, today) ==
    LET gender == Lower(FieldValue(fields, "gender", <<>>))
        age_str == FieldValue(fields, "age", <<>>)
        birth_date == FieldValue(fields, "birth_date", <<>>)
        birth_dt == Strptime(Replace(Replace(Replace(birth_date,
                        YearChar, <<"-">>), MonthChar, <<"-">>), DayChar, <<>>))
        diagnosis == Lower(FieldValue(fields, "diagnosis", <<>>))
        flagged(age) ==
            /\ Contains(gender, Female)
            /\ age < AdultAge
            /\ \E keyword \in PregnancyKeywords : Contains(diagnosis, keyword)
    IN IF ~IsDigit(age_str)
       THEN IF birth_date # <<>>
            THEN IF birth_dt = NoDate THEN FALSE
                 ELSE flagged(AgeFromBirthDate(birth_dt, today))
            ELSE FALSE
       ELSE flagged(ToInt(age_str))

\* _check_pre_existing_conditions
check_pre_existing_conditions(fields) ==
    LET medical_history == Lower(FieldValue(fields, "medical_history", <<>>))
        diagnosis == Lower(FieldValue(fields, "diagnosis", <<>>))
    IN IF medical_history # <<>> /\ diagnosis # <<>>
       THEN Contains(medical_history, diagnosis)
       ELSE FALSE

\* the invoice amount the evaluator reads: re.findall on the value with its
\* commas removed, "0" when the field is missing
InvoiceNumber(fields) ==
    FirstNumber(Replace(FieldValue(fields, "invoice_amount", <<"0">>), ",", <<>>))

AbnormalCostThreshold == 20000

\* _check_abnormal_cost
check_abnormal_cost(fields) ==
    LET n == InvoiceNumber(fields)
    IN IF n # NoNumber
       THEN n.num > AbnormalCostThreshold * Pow10(n.fd)
       ELSE FALSE

\* _check_medication_diagnosis_match
check_medication_diagnosis_match(fields) ==
    LET diagnosis == Lower(FieldValue(fields, "diagnosis", <<>>))
        medications == Lower(FieldValue(fields, "medications", <<>>))
    IN /\ Contains(medications, Antibiotic)
       /\ ~Contains(diagnosis, Infection)
       /\ ~Contains(diagnosis, Inflammation)

\* self.risk_rules, in order; the condition of rule i is RuleCondition(i, ...)
risk_rules ==
    << [name |-> "gender_age_mismatch", severity |-> "high",        \* 性别年龄不符
        description |-> "insured's gender and age do not match"],
       [name |-> "pre_existing_condition", severity |-> "high",     \* 既往症检测
        description |-> "suspected pre-existing condition"],
       [name |-> "abnormally_high_cost", severity |-> "medium",     \* 费用异常高
        description |-> "cost beyond the reasonable range"],
       [name |-> "medication_diagnosis_mismatch", severity |-> "high",  \* 诊断与用药不符
        description |-> "medication does not match the diagnosis"] >>

RuleCondition(i, fields, today) ==
    CASE i = 1 -> check_gender_age_inconsistency(fields, today)
      [] i = 2 -> check_pre_existing_conditions(fields)
      [] i = 3 -> check_abnormal_cost(fields)
      [] i = 4 -> check_medication_diagnosis_match(fields)

RECURSIVE RiskLoop(_, _, _)
RiskLoop(i, fields, today) ==
    IF i > Len(risk_rules) THEN <<>>
    ELSE (IF RuleCondition(i, fields, today) THEN <<risk_rules[i]>> ELSE <<>>)
         \o RiskLoop(i + 1, fields, today)

\* _apply_risk_rules
apply_risk_rules(fields, today) == RiskLoop(1, fields, today)

\* round(n / d, 2 places already scaled in): the nearest integer to n / d.  On
\* an exact tie the code's result depends on the binary rounding error of the
\* product; tie_up says which neighbour it takes.
RoundDiv(n, d, tie_up) ==
    LET q == n \div d
        r == n % d
    IN IF 2 * r < d THEN q
       ELSE IF 2 * r > d THEN q + 1
       ELSE IF tie_up THEN q + 1 ELSE q

\* calculate_recommended_payout paying in spite of exclusion factors
calculate_recommended_payout_despite_exclusions(fields, policy_info, coverage_applicable, exclusion_factors, tie_up) ==
    IF ~coverage_applicable THEN 0
    ELSE LET n == InvoiceNumber(fields)
             invoice_amount == IF n # NoNumber THEN n ELSE [num |-> 0, fd |-> 0]
             limits == policy_info.limits
             self_pay_ratio == IF SelfPayRatioKey \in DOMAIN limits
                               THEN limits[SelfPayRatioKey] ELSE 0
             payout_num == invoice_amount.num * (100 - self_pay_ratio)
             scale == Pow10(invoice_amount.fd)
         IN IF AnnualLimitKey \in DOMAIN limits
               /\ payout_num >= limits[AnnualLimitKey] * 100 * scale
            THEN limits[AnnualLimitKey] * 100
            ELSE RoundDiv(payout_num, scale, tie_up)

\* calculate_recommended_payout without the cap at the annual limit
calculate_recommended_payout_uncapped(fields, policy_info, coverage_applicable, exclusion_factors, tie_up) ==
    IF ~coverage_applicable \/ exclusion_factors # <<>> THEN 0
    ELSE LET n == InvoiceNumber(fields)
             invoice_amount == IF n # NoNumber THEN n ELSE [num |-> 0, fd |-> 0]
             limits == policy_info.limits
             self_pay_ratio == IF SelfPayRatioKey \in DOMAIN limits
                               THEN limits[SelfPayRatioKey] ELSE 0
         IN RoundDiv(invoice_amount.num * (100 - self_pay_ratio),
                     Pow10(invoice_amount.fd), tie_up)

\* _calculate_recommended_payout, in cents
calculate_recommended_payout(fields, policy_info, coverage_applicable, exclusion_factors, tie_up) ==
    IF ~coverage_applicable \/ exclusion_factors # <<>> THEN 0
    ELSE LET n == InvoiceNumber(fields)
             invoice_amount == IF n # NoNumber THEN n ELSE [num |-> 0, fd |-> 0]
             limits == policy_info.limits
             self_pay_ratio == IF SelfPayRatioKey \in DOMAIN limits
                               THEN limits[SelfPayRatioKey] ELSE 0
             \* payout in cents is payout_num / 10^fd
             payout_num == invoice_amount.num * (100 - self_pay_ratio)
             scale == Pow10(invoice_amount.fd)
         IN IF AnnualLimitKey \in DOMAIN limits
               /\ payout_num >= limits[AnnualLimitKey] * 100 * scale
            THEN limits[AnnualLimitKey] * 100
            ELSE RoundDiv(payout_num, scale, tie_up)

BaseConfidence == 90
NotCoveredPenalty == 30
ExclusionPenalty == 20
RiskPenalty == 10
MinConfidence == 10

\* calculate_evaluation_confidence without the floor
calculate_evaluation_confidence_unfloored(coverage_applicable, exclusion_count, risk_count) ==
    (IF ~coverage_applicable THEN BaseConfidence - NotCoveredPenalty
     ELSE BaseConfidence)
    - ExclusionPenalty * exclusion_count - RiskPenalty * risk_count

\* _calculate_evaluation_confidence, in hundredths
calculate_evaluation_confidence(coverage_applicable, exclusion_count, risk_count) ==
    LET c1 == IF ~coverage_applicable THEN BaseConfidence - NotCoveredPenalty
              ELSE BaseConfidence
        c2 == IF exclusion_count > 0 THEN c1 - ExclusionPenalty * exclusion_count
              ELSE c1
        c3 == IF risk_count > 0 THEN c2 - RiskPenalty * risk_count ELSE c2
    IN Max(c3, MinConfidence)

\* _generate_evaluation_reasons; each reason string is held as its parts
generate_evaluation_reasons(coverage_applicable, coverage_issues, exclusion_factors, risk_factors) ==
    (IF coverage_applicable THEN << <<"covered">> >>             \* 案件在保险保障范围内
     ELSE << <<"maybe_not_covered">> >> \o                       \* 案件可能不在保障范围内
          [i \in 1..Len(coverage_issues) |-> <<"issue", coverage_issues[i]>>])
    \o (IF exclusion_factors # <<>>
        THEN << <<"exclusions", Len(exclusion_factors), exclusion_factors>> >>
        ELSE <<>>)
    \o (IF risk_factors # <<>>
        THEN << <<"risks", Len(risk_factors),
                  [i \in 1..Len(risk_factors) |-> risk_factors[i].name]>> >>
        ELSE <<>>)
    \o (IF coverage_issues = <<>> /\ exclusion_factors = <<>> /\ risk_factors = <<>>
        THEN << <<"no_issue">> >>                                \* 未发现明显风险或免责情况
        ELSE <<>>)

\* evaluate_claim paying nothing once a risk rule has fired
Evaluate_without_payout_at_risk(fields, policy_info, today, tie_up) ==
    LET coverage == check_coverage(fields, policy_info)
        exclusion_factors == check_exclusions(fields, policy_info)
        risk_factors == apply_risk_rules(fields, today)
    IN [coverage_applicable |-> coverage.is_covered,
        exclusion_factors |-> exclusion_factors,
        coverage_limit |-> IF AnnualLimitKey \in DOMAIN policy_info.limits
                           THEN Some(policy_info.limits[AnnualLimitKey]) ELSE None,
        recommended_payout |->
            IF risk_factors # <<>> THEN 0
            ELSE calculate_recommended_payout(fields, policy_info, coverage.is_covered,
                                              exclusion_factors, tie_up),
        evaluation_reasons |->
            generate_evaluation_reasons(coverage.is_covered, coverage.issues,
                                        exclusion_factors, risk_factors),
        confidence |->
            calculate_evaluation_confidence(coverage.is_covered,
                                            Len(exclusion_factors), Len(risk_factors))]

\* evaluate_claim from the merged fields and the policy on (lines 103-148);
\* risk_factors is kept beside the LiabilityEvaluation's own fields
Evaluate(fields, policy_info, today, tie_up) ==
    LET coverage == check_coverage(fields, policy_info)
        exclusion_factors == check_exclusions(fields, policy_info)
        risk_factors == apply_risk_rules(fields, today)
    IN [coverage_applicable |-> coverage.is_covered,
        exclusion_factors |-> exclusion_factors,
        coverage_limit |-> IF AnnualLimitKey \in DOMAIN policy_info.limits
                           THEN Some(policy_info.limits[AnnualLimitKey]) ELSE None,
        recommended_payout |->
            calculate_recommended_payout(fields, policy_info, coverage.is_covered,
                                         exclusion_factors, tie_up),
        evaluation_reasons |->
            generate_evaluation_reasons(coverage.is_covered, coverage.issues,
                                        exclusion_factors, risk_factors),
        confidence |->
            calculate_evaluation_confidence(coverage.is_covered,
                                            Len(exclusion_factors), Len(risk_factors))]

\* evaluate_claim(claim_id, contract_terms)
evaluate_claim(claim_id, contract_terms, today, tie_up) ==
    Evaluate(merge_extraction_results(get_claim_data(claim_id).extraction_results),
             parse_policy_terms(contract_terms), today, tie_up)

(***************************************************************************)
(* Document classifier: services/document_classifier.py                    *)
(***************************************************************************)

\* DocumentType, in enumeration order; self.supported_types is the same list
supported_types ==
    <<"medical_record", "accident_report", "invoice", "identity_card",
      "bank_statement", "insurance_contract">>

\* self.keyword_mapping; its keys are in the order of supported_types
keyword_mapping ==
    [medical_record |->   \* 病历 诊断 入院 出院 医嘱 检查 检验 病理 门诊
        << <<"u75C5", "u5386">>,
           <<"u8BCA", "u65AD">>,
           <<"u5165", "u9662">>,
           <<"u51FA", "u9662">>,
           <<"u533B", "u5631">>,
           <<"u68C0", "u67E5">>,
           <<"u68C0", "u9A8C">>,
           <<"u75C5", "u7406">>,
           <<"u95E8", "u8BCA">> >>,
     accident_report |->   \* 事故 现场 交警 认定书 碰撞 损伤 报案 调查
        << <<"u4E8B", "u6545">>,
           <<"u73B0", "u573A">>,
           <<"u4EA4", "u8B66">>,
           <<"u8BA4", "u5B9A", "u4E66">>,
           <<"u78B0", "u649E">>,
           <<"u635F", "u4F24">>,
           <<"u62A5", "u6848">>,
           <<"u8C03", "u67E5">> >>,
     invoice |->   \* 发票 金额 费用 收据 结算 收费 凭证
        << <<"u53D1", "u7968">>,
           <<"u91D1", "u989D">>,
           <<"u8D39", "u7528">>,
           <<"u6536", "u636E">>,
           <<"u7ED3", "u7B97">>,
           <<"u6536", "u8D39">>,
           <<"u51ED", "u8BC1">> >>,
     identity_card |->   \* 身份证 姓名 性别 出生 地址 证件
        << <<"u8EAB", "u4EFD", "u8BC1">>,
           <<"u59D3", "u540D">>,
           <<"u6027", "u522B">>,
           <<"u51FA", "u751F">>,
           <<"u5730", "u5740">>,
           <<"u8BC1", "u4EF6">> >>,
     bank_statement |->   \* 银行 流水 转账 账户 存款 取款 余额
        << <<"u94F6", "u884C">>,
           <<"u6D41", "u6C34">>,
           <<"u8F6C", "u8D26">>,
           <<"u8D26", "u6237">>,
           <<"u5B58", "u6B3E">>,
           <<"u53D6", "u6B3E">>,
           <<"u4F59", "u989D">> >>,
     insurance_contract |->   \* 保险 合同 条款 投保 受益 保费 保障
        << <<"u4FDD", "u9669">>,
           <<"u5408", "u540C">>,
           <<"u6761", "u6B3E">>,
           <<"u6295", "u4FDD">>,
           <<"u53D7", "u76CA">>,
           <<"u4FDD", "u8D39">>,
           <<"u4FDD", "u969C">> >>]

\* the score of doc_type counting every occurrence of its keywords
Score_counting_occurrences(doc_type, content_lower) ==
    Cardinality({<<i, p>> \in (1..Len(keyword_mapping[doc_type])) \X (1..Len(content_lower)) :
                    LET keyword == Lower(keyword_mapping[doc_type][i])
                    IN  /\ p + Len(keyword) - 1 <= Len(content_lower)
                        /\ SubSeq(content_lower, p, p + Len(keyword) - 1) = keyword})

\* the score of doc_type: its keywords that occur in content_lower
Score(doc_type, content_lower) ==
    Cardinality({i \in 1..Len(keyword_mapping[doc_type]) :
                    Contains(content_lower, Lower(keyword_mapping[doc_type][i]))})

\* max(scores, key=scores.get) resolving ties to the last type of maximal score
LastMaxType(content_lower) ==
    supported_types[
        CHOOSE i \in 1..Len(supported_types) :
            /\ \A j \in 1..Len(supported_types) :
                   Score(supported_types[j], content_lower)
                       <= Score(supported_types[i], content_lower)
            /\ \A j \in (i + 1)..Len(supported_types) :
                   Score(supported_types[j], content_lower)
                       < Score(supported_types[i], content_lower)]

\* max(scores, key=scores.get): the first type, in dict order, of maximal score
FirstMaxType(content_lower) ==
    supported_types[
        CHOOSE i \in 1..Len(supported_types) :
            /\ \A j \in 1..Len(supported_types) :
                   Score(supported_types[j], content_lower)
                       <= Score(supported_types[i], content_lower)
            /\ \A j \in 1..(i - 1) :
                   Score(supported_types[j], content_lower)
                       < Score(supported_types[i], content_lower)]

RECURSIVE SumLen(_, _)
SumLen(f, keys) ==
    IF keys = <<>> THEN 0 ELSE Len(f[Head(keys)]) + SumLen(f, Tail(keys))

\* total_keywords // len(self.keyword_mapping), at least 1
ConfidenceDivisor ==
    Max(1, SumLen(keyword_mapping, supported_types) \div Len(supported_types))

\* A confidence or accuracy of the classifier and the extractor is the
\* fraction n / d (d > 0).  0.1 is 1/10.
Fraction(n, d) == [n |-> n, d |-> d]

\* _classify_content with the confidence not capped at 1.0
classify_content_uncapped(content) ==
    LET content_lower == Lower(content)
        predicted_type == FirstMaxType(content_lower)
        max_score == Score(predicted_type, content_lower)
    IN IF max_score = 0
       THEN [predicted_type |-> "medical_record", confidence |-> Fraction(1, 10)]
       ELSE [predicted_type |-> predicted_type,
             confidence |-> Fraction(max_score, ConfidenceDivisor)]

\* _classify_content without the default for a text that matches no keyword
classify_content_without_default(content) ==
    LET content_lower == Lower(content)
        predicted_type == FirstMaxType(content_lower)
        max_score == Score(predicted_type, content_lower)
    IN [predicted_type |-> predicted_type,
        confidence |-> Fraction(Min(max_score, ConfidenceDivisor),
                                ConfidenceDivisor)]

\* _classify_content: (predicted type, confidence)
classify_content(content) ==
    LET content_lower == Lower(content)
        predicted_type == FirstMaxType(content_lower)
        max_score == Score(predicted_type, content_lower)
    IN IF max_score = 0
       THEN [predicted_type |-> "medical_record", confidence |-> Fraction(1, 10)]
       ELSE [predicted_type |-> predicted_type,
             confidence |-> Fraction(Min(max_score, ConfidenceDivisor),
                                     ConfidenceDivisor)]

\* _get_alternative_types
get_alternative_types(primary_type) ==
    LET alternatives == SelectSeq(supported_types, LAMBDA t : t # primary_type)
    IN SubSeq(alternatives, 1, Min(3, Len(alternatives)))

\* classify(text): classify_document once the document's text is read; the
\* document id is a fresh uuid4
classify(document_id, content) ==
    LET c == classify_content(content)
    IN [document_id |-> document_id,
        predicted_type |-> c.predicted_type,
        confidence |-> c.confidence,
        alternative_types |-> get_alternative_types(c.predicted_type)]

\* _extract_text_from_document of a path that does not end in .txt:
\* "模拟文档内容来自: " and the path's base name
ClassifierPlaceholderText(base_name) ==
    <<"u6A21", "u62DF", "u6587", "u6863", "u5185", "u5BB9", "u6765", "u81EA", ":", " ">>
    \o base_name

\* _get_claim_documents: doc_1.pdf, doc_2.pdf, doc_3.pdf under /tmp/claims/<id>
ClaimDocumentNames ==
    [i \in 1..3 |-> <<"d", "o", "c", "_">> \o <<<<"1", "2", "3">>[i]>> \o <<".", "p", "d", "f">>]

\* classify_claim_documents; the i-th result's uuid4 is held as <<"uuid4", i>>
classify_claim_documents(claim_id) ==
    [i \in 1..Len(ClaimDocumentNames) |->
        classify(<<"uuid4", i>>, ClassifierPlaceholderText(ClaimDocumentNames[i]))]

(***************************************************************************)
(* Keyword extractor: services/keyword_extractor.py                        *)
(*                                                                         *)
(* Every pattern of field_definitions has the shape                        *)
(*     labels [：:] \s* ( value tail? )                                    *)
(* where labels is a literal or an alternation of literals, value is a     *)
(* sequence of greedy character-class repetitions and tail is an optional  *)
(* (?:\.\d+)? group.  Matching is re's: leftmost start, alternatives in    *)
(* order, greedy repetitions with backtracking.  The field value is the    *)
(* last group of the first match.                                          *)
(***************************************************************************)

\* str.isspace() / \s, for the characters that occur in the model's texts
Whitespace == {" ", "\t", "\n", "\r", "u3000"}

\* characters that are not \w: punctuation and symbols of the model's texts;
\* letters, digits, "_" and the CJK ideographs are \w (str patterns are Unicode)
NotWord ==
    Whitespace \cup
    {"!", "#", "$", "%", "&", "'", "(", ")", "*", "+", ",", "-", ".", "/",
     ":", ";", "<", "=", ">", "?", "@", "[", "]", "^", "{", "|", "}", "~",
     "u00A5", "uFFE5", "uFF1A", "uFF0C", "u3002"}     \* yen signs U+00A5 and U+FFE5, fullwidth colon and comma, ideographic full stop

AsciiLetters == {UpperCase[i] : i \in 1..26} \cup {LowerCase[i] : i \in 1..26}

\* a character class: its literal members and the escapes it contains
CharClass(chars, digit, space, word, letter, neg) ==
    [chars |-> chars, digit |-> digit, space |-> space, word |-> word,
     letter |-> letter, neg |-> neg]

OneOf(chars) == CharClass(chars, FALSE, FALSE, FALSE, FALSE, FALSE)
Digit == CharClass({}, TRUE, FALSE, FALSE, FALSE, FALSE)               \* \d
NotNewline == CharClass({"\n", "\r"}, FALSE, FALSE, FALSE, FALSE, TRUE)  \* [^\n\r]
Space == CharClass({}, FALSE, TRUE, FALSE, FALSE, FALSE)               \* \s
Colon == OneOf({"uFF1A", ":"})                                         \* [：:]
MoneyLead == CharClass({"u00A5", "uFFE5", "$"}, FALSE, FALSE, TRUE, FALSE, FALSE)  \* [¥￥\$\w]
UpperOrDigit == CharClass({}, TRUE, FALSE, FALSE, TRUE, FALSE)         \* [A-Z\d] under re.IGNORECASE
DigitOrX == CharClass({"X", "x"}, TRUE, FALSE, FALSE, FALSE, FALSE)    \* [\dXx]
DigitOrSpace == CharClass({}, TRUE, TRUE, FALSE, FALSE, FALSE)         \* [\d\s]

InClass(c, k) ==
    LET member == \/ c \in k.chars
                  \/ k.digit /\ c \in Digits
                  \/ k.space /\ c \in Whitespace
                  \/ k.word /\ c \notin NotWord
                  \/ k.letter /\ c \in AsciiLetters
    IN  member # k.neg

\* a class repeated between min and max times, greedily; max = Unbounded for + and *
Unbounded == -1
Item(k, lo, hi) == [cls |-> k, min |-> lo, max |-> hi]

\* the result of a match attempt that fails; a match is a tuple of offsets
NoMatch == <<>>

\* x if x is a match, else y; x is computed once
OrElse(x, y) == CHOOSE v \in {IF r # NoMatch THEN r ELSE y : r \in {x}} : TRUE

\* how many characters after offset pos are in class k, at most max of them
Run(text, pos, k, max) ==
    LET left == Max(Len(text) - pos, 0)
        cap == IF max = Unbounded THEN left ELSE Min(max, left)
    IN  CHOOSE n \in 0..cap :
            /\ \A j \in 1..n : InClass(text[pos + j], k)
            /\ n = cap \/ ~InClass(text[pos + n + 1], k)

\* the items from offset start: <<end offset>> of the match the backtracking
\* search finds first, or NoMatch.  try[i, p, n] is items[i] repeated n times
\* from offset p and then items[i+1..], with one repetition less if that fails.
MatchItems(items, text, start) ==
    LET last == Len(items)
        try[i \in 1..last, p \in 0..Len(text), n \in 0..Len(text)] ==
            IF n < items[i].min
            THEN NoMatch
            ELSE OrElse(IF i = last
                        THEN <<p + n>>
                        ELSE try[i + 1, p + n,
                                 Run(text, p + n, items[i + 1].cls, items[i + 1].max)],
                        IF n = 0 THEN NoMatch ELSE try[i, p, n - 1])
    IN  IF last = 0 THEN <<start>>
        ELSE try[1, start, Run(text, start, items[1].cls, items[1].max)]

HasLiteralAt(text, pos, lit) ==
    /\ pos + Len(lit) <= Len(text)
    /\ SubSeq(text, pos + 1, pos + Len(lit)) = lit

\* value tail? from offset pos: <<end offset>>, or NoMatch
MatchValue(def, text, pos) ==
    LET e == MatchItems(def.value, text, pos)
    IN  IF e = NoMatch \/ def.tail = <<>> THEN e
        ELSE OrElse(MatchItems(def.tail, text, e[1]), e)

\* the group from offset start, given the end of its match
Group(start, e) == IF e = NoMatch THEN NoMatch ELSE <<start, e[1]>>

\* [：:] \s* ( value tail? ) from offset pos: <<start, end>> of the group, or
\* NoMatch.  try[n] is \s* taking n blanks, with one blank less if that fails.
MatchAfterLabel(def, text, pos) ==
    IF pos >= Len(text) \/ ~InClass(text[pos + 1], Colon)
    THEN NoMatch
    ELSE LET try[n \in 0..Len(text)] ==
                 OrElse(Group(pos + 1 + n, MatchValue(def, text, pos + 1 + n)),
                        IF n = 0 THEN NoMatch ELSE try[n - 1])
         IN  try[Run(text, pos + 1, Space, Unbounded)]

\* the pattern of def anchored at offset pos: the group of the first
\* alternative label that leads to a match, or NoMatch
RECURSIVE MatchAt(_, _, _, _)
MatchAt(def, text, pos, alt) ==
    IF alt > Len(def.labels)
    THEN NoMatch
    ELSE OrElse(IF HasLiteralAt(text, pos, def.labels[alt])
                THEN MatchAfterLabel(def, text, pos + Len(def.labels[alt]))
                ELSE NoMatch,
                MatchAt(def, text, pos, alt + 1))

\* re.findall(pattern, content, re.IGNORECASE): <<start, end>> of the last
\* group of matches[0], or NoMatch when matches is empty
FirstMatch(def, text) ==
    CHOOSE m \in
        { IF hits = {} THEN NoMatch
          ELSE MatchAt(def, text, CHOOSE p \in hits : \A q \in hits : p <= q, 1) :
          hits \in {{pos \in 0..(Len(text) - 1) : MatchAt(def, text, pos, 1) # NoMatch}} } : TRUE

\* str.strip()
Strip(s) ==
    LET keep == {i \in 1..Len(s) : s[i] \notin Whitespace}
    IN  IF keep = {} THEN <<>>
        ELSE SubSeq(s, CHOOSE i \in keep : \A j \in keep : i <= j,
                       CHOOSE i \in keep : \A j \in keep : j <= i)

\* field_definitions, by document type, in the order of the code
field_definitions ==
    [medical_record |->
        <<
           \* 患者[：:]\s*([^\n\r]+)
           [name |-> "patient_name",
            labels |-> << <<"u60A3", "u8005">> >>,
            value |-> <<Item(NotNewline, 1, -1)>>,
            tail |-> <<>>],
           \* (诊断|初步诊断)[：:]\s*([^\n\r]+)
           [name |-> "diagnosis",
            labels |-> << <<"u8BCA", "u65AD">>, <<"u521D", "u6B65", "u8BCA", "u65AD">> >>,
            value |-> <<Item(NotNewline, 1, -1)>>,
            tail |-> <<>>],
           \* (入院日期|住院日期)[：:]\s*(\d{4}[-年]\d{1,2}[-月]\d{1,2}[日天]?)
           [name |-> "admission_date",
            labels |-> << <<"u5165", "u9662", "u65E5", "u671F">>, <<"u4F4F", "u9662", "u65E5", "u671F">> >>,
            value |-> <<Item(Digit, 4, 4), Item(OneOf({"-", "u5E74"}), 1, 1), Item(Digit, 1, 2), Item(OneOf({"-", "u6708"}), 1, 1), Item(Digit, 1, 2), Item(OneOf({"u65E5", "u5929"}), 0, 1)>>,
            tail |-> <<>>],
           \* (出院日期)[：:]\s*(\d{4}[-年]\d{1,2}[-月]\d{1,2}[日天]?)
           [name |-> "discharge_date",
            labels |-> << <<"u51FA", "u9662", "u65E5", "u671F">> >>,
            value |-> <<Item(Digit, 4, 4), Item(OneOf({"-", "u5E74"}), 1, 1), Item(Digit, 1, 2), Item(OneOf({"-", "u6708"}), 1, 1), Item(Digit, 1, 2), Item(OneOf({"u65E5", "u5929"}), 0, 1)>>,
            tail |-> <<>>],
           \* (医院|医疗机构)[：:]\s*([^\n\r]+)
           [name |-> "hospital_name",
            labels |-> << <<"u533B", "u9662">>, <<"u533B", "u7597", "u673A", "u6784">> >>,
            value |-> <<Item(NotNewline, 1, -1)>>,
            tail |-> <<>>],
           \* (主治医师|医生)[：:]\s*([^\n\r]+)
           [name |-> "doctor_name",
            labels |-> << <<"u4E3B", "u6CBB", "u533B", "u5E08">>, <<"u533B", "u751F">> >>,
            value |-> <<Item(NotNewline, 1, -1)>>,
            tail |-> <<>>] >>,
     accident_report |->
        <<
           \* (事故日期|发生时间)[：:]\s*(\d{4}[-年]\d{1,2}[-月]\d{1,2}[日天]?)
           [name |-> "accident_date",
            labels |-> << <<"u4E8B", "u6545", "u65E5", "u671F">>, <<"u53D1", "u751F", "u65F6", "u95F4">> >>,
            value |-> <<Item(Digit, 4, 4), Item(OneOf({"-", "u5E74"}), 1, 1), Item(Digit, 1, 2), Item(OneOf({"-", "u6708"}), 1, 1), Item(Digit, 1, 2), Item(OneOf({"u65E5", "u5929"}), 0, 1)>>,
            tail |-> <<>>],
           \* (事故地点|现场位置)[：:]\s*([^\n\r]+)
           [name |-> "accident_location",
            labels |-> << <<"u4E8B", "u6545", "u5730", "u70B9">>, <<"u73B0", "u573A", "u4F4D", "u7F6E">> >>,
            value |-> <<Item(NotNewline, 1, -1)>>,
            tail |-> <<>>],
           \* (当事人|涉事人员)[：:]\s*([^\n\r]+)
           [name |-> "parties_involved",
            labels |-> << <<"u5F53", "u4E8B", "u4EBA">>, <<"u6D89", "u4E8B", "u4EBA", "u5458">> >>,
            value |-> <<Item(NotNewline, 1, -1)>>,
            tail |-> <<>>],
           \* (事故经过|简要描述)[：:]\s*([^\n\r]+)
           [name |-> "accident_description",
            labels |-> << <<"u4E8B", "u6545", "u7ECF", "u8FC7">>, <<"u7B80", "u8981", "u63CF", "u8FF0">> >>,
            value |-> <<Item(NotNewline, 1, -1)>>,
            tail |-> <<>>],
           \* (交警队|派出所)[：:]\s*([^\n\r]+)
           [name |-> "police_station",
            labels |-> << <<"u4EA4", "u8B66", "u961F">>, <<"u6D3E", "u51FA", "u6240">> >>,
            value |-> <<Item(NotNewline, 1, -1)>>,
            tail |-> <<>>] >>,
     invoice |->
        <<
           \* (发票号码|发票号)[：:]\s*([A-Z\d]+)
           [name |-> "invoice_number",
            labels |-> << <<"u53D1", "u7968", "u53F7", "u7801">>, <<"u53D1", "u7968", "u53F7">> >>,
            value |-> <<Item(UpperOrDigit, 1, -1)>>,
            tail |-> <<>>],
           \* (金额|合计)[：:]\s*([¥￥\$\w]+\d+(?:\.\d+)?)
           [name |-> "invoice_amount",
            labels |-> << <<"u91D1", "u989D">>, <<"u5408", "u8BA1">> >>,
            value |-> <<Item(MoneyLead, 1, -1), Item(Digit, 1, -1)>>,
            tail |-> <<Item(OneOf({"."}), 1, 1), Item(Digit, 1, -1)>>],
           \* (开票日期|日期)[：:]\s*(\d{4}[-年]\d{1,2}[-月]\d{1,2}[日天]?)
           [name |-> "invoice_date",
            labels |-> << <<"u5F00", "u7968", "u65E5", "u671F">>, <<"u65E5", "u671F">> >>,
            value |-> <<Item(Digit, 4, 4), Item(OneOf({"-", "u5E74"}), 1, 1), Item(Digit, 1, 2), Item(OneOf({"-", "u6708"}), 1, 1), Item(Digit, 1, 2), Item(OneOf({"u65E5", "u5929"}), 0, 1)>>,
            tail |-> <<>>],
           \* (销售方|收款方|供应商)[：:]\s*([^\n\r]+)
           [name |-> "provider",
            labels |-> << <<"u9500", "u552E", "u65B9">>, <<"u6536", "u6B3E", "u65B9">>, <<"u4F9B", "u5E94", "u5546">> >>,
            value |-> <<Item(NotNewline, 1, -1)>>,
            tail |-> <<>>],
           \* (购买方|付款方|客户)[：:]\s*([^\n\r]+)
           [name |-> "recipient",
            labels |-> << <<"u8D2D", "u4E70", "u65B9">>, <<"u4ED8", "u6B3E", "u65B9">>, <<"u5BA2", "u6237">> >>,
            value |-> <<Item(NotNewline, 1, -1)>>,
            tail |-> <<>>] >>,
     identity_card |->
        <<
           \* 姓名[：:]\s*([^\n\r]+)
           [name |-> "name",
            labels |-> << <<"u59D3", "u540D">> >>,
            value |-> <<Item(NotNewline, 1, -1)>>,
            tail |-> <<>>],
           \* 身份证号[：:]\s*(\d{17}[\dXx])
           [name |-> "id_number",
            labels |-> << <<"u8EAB", "u4EFD", "u8BC1", "u53F7">> >>,
            value |-> <<Item(Digit, 17, 17), Item(DigitOrX, 1, 1)>>,
            tail |-> <<>>],
           \* 性别[：:]\s*([^\n\r]+)
           [name |-> "gender",
            labels |-> << <<"u6027", "u522B">> >>,
            value |-> <<Item(NotNewline, 1, -1)>>,
            tail |-> <<>>],
           \* 出生[：:]\s*(\d{4}[-年]\d{1,2}[-月]\d{1,2}[日天]?)
           [name |-> "birth_date",
            labels |-> << <<"u51FA", "u751F">> >>,
            value |-> <<Item(Digit, 4, 4), Item(OneOf({"-", "u5E74"}), 1, 1), Item(Digit, 1, 2), Item(OneOf({"-", "u6708"}), 1, 1), Item(Digit, 1, 2), Item(OneOf({"u65E5", "u5929"}), 0, 1)>>,
            tail |-> <<>>],
           \* 住址[：:]\s*([^\n\r]+)
           [name |-> "address",
            labels |-> << <<"u4F4F", "u5740">> >>,
            value |-> <<Item(NotNewline, 1, -1)>>,
            tail |-> <<>>] >>,
     bank_statement |->
        <<
           \* (账号|卡号)[：:]\s*([\d\s]+)
           [name |-> "account_number",
            labels |-> << <<"u8D26", "u53F7">>, <<"u5361", "u53F7">> >>,
            value |-> <<Item(DigitOrSpace, 1, -1)>>,
            tail |-> <<>>],
           \* (户名|账户持有人)[：:]\s*([^\n\r]+)
           [name |-> "account_holder",
            labels |-> << <<"u6237", "u540D">>, <<"u8D26", "u6237", "u6301", "u6709", "u4EBA">> >>,
            value |-> <<Item(NotNewline, 1, -1)>>,
            tail |-> <<>>],
           \* (余额|当前余额)[：:]\s*([¥￥\$\w]+\d+(?:\.\d+)?)
           [name |-> "balance",
            labels |-> << <<"u4F59", "u989D">>, <<"u5F53", "u524D", "u4F59", "u989D">> >>,
            value |-> <<Item(MoneyLead, 1, -1), Item(Digit, 1, -1)>>,
            tail |-> <<Item(OneOf({"."}), 1, 1), Item(Digit, 1, -1)>>],
           \* (账单期间|对账单期间)[：:]\s*([^\n\r]+)
           [name |-> "statement_period",
            labels |-> << <<"u8D26", "u5355", "u671F", "u95F4">>, <<"u5BF9", "u8D26", "u5355", "u671F", "u95F4">> >>,
            value |-> <<Item(NotNewline, 1, -1)>>,
            tail |-> <<>>] >>,
     insurance_contract |->
        <<
           \* (保单号|保险单号)[：:]\s*([A-Z\d]+)
           [name |-> "policy_number",
            labels |-> << <<"u4FDD", "u5355", "u53F7">>, <<"u4FDD", "u9669", "u5355", "u53F7">> >>,
            value |-> <<Item(UpperOrDigit, 1, -1)>>,
            tail |-> <<>>],
           \* (投保人)[：:]\s*([^\n\r]+)
           [name |-> "policy_holder",
            labels |-> << <<"u6295", "u4FDD", "u4EBA">> >>,
            value |-> <<Item(NotNewline, 1, -1)>>,
            tail |-> <<>>],
           \* (被保险人)[：:]\s*([^\n\r]+)
           [name |-> "insured_person",
            labels |-> << <<"u88AB", "u4FDD", "u9669", "u4EBA">> >>,
            value |-> <<Item(NotNewline, 1, -1)>>,
            tail |-> <<>>],
           \* (保险金额|保额)[：:]\s*([¥￥\$\w]+\d+(?:\.\d+)?)
           [name |-> "coverage_amount",
            labels |-> << <<"u4FDD", "u9669", "u91D1", "u989D">>, <<"u4FDD", "u989D">> >>,
            value |-> <<Item(MoneyLead, 1, -1), Item(Digit, 1, -1)>>,
            tail |-> <<Item(OneOf({"."}), 1, 1), Item(Digit, 1, -1)>>],
           \* (生效日期|保险期间)[：:]\s*(\d{4}[-年]\d{1,2}[-月]\d{1,2}[日天]?)
           [name |-> "effective_date",
            labels |-> << <<"u751F", "u6548", "u65E5", "u671F">>, <<"u4FDD", "u9669", "u671F", "u95F4">> >>,
            value |-> <<Item(Digit, 4, 4), Item(OneOf({"-", "u5E74"}), 1, 1), Item(Digit, 1, 2), Item(OneOf({"-", "u6708"}), 1, 1), Item(Digit, 1, 2), Item(OneOf({"u65E5", "u5929"}), 0, 1)>>,
            tail |-> <<>>] >>]

\* the confidence of every extracted field, in hundredths
ExtractedConfidence == 90

ExtractedField(field_name, field_value, confidence) ==
    [field_name |-> field_name, field_value |-> field_value,
     confidence |-> confidence, page_number |-> None, position |-> None]

\* one field definition: <<the field>> if its pattern matches, else <<>>
\* (matches is computed once)
ExtractOne(field_def, content) ==
    CHOOSE fields \in
        { IF matches = NoMatch
          THEN <<>>
          ELSE LET field_value == SubSeq(content, matches[1] + 1, matches[2])
               IN  <<ExtractedField(field_def.name, Strip(field_value),
                                    ExtractedConfidence)>> :
          matches \in {FirstMatch(field_def, content)} } : TRUE

RECURSIVE ExtractLoop(_, _, _)
ExtractLoop(fields_to_extract, i, content) ==
    IF i > Len(fields_to_extract)
    THEN <<>>
    ELSE ExtractOne(fields_to_extract[i], content)
             \o ExtractLoop(fields_to_extract, i + 1, content)

extract_fields_by_type(content, doc_type) ==
    IF doc_type \notin DOMAIN field_definitions
    THEN <<>>
    ELSE ExtractLoop(field_definitions[doc_type], 1, content)

RECURSIVE SumConfidence(_)
SumConfidence(fields) ==
    IF fields = <<>> THEN 0 ELSE Head(fields).confidence + SumConfidence(Tail(fields))

IdealFieldCount == 5

\* accuracy = avg_confidence * 0.7 + field_ratio * 0.3, as an exact fraction:
\* avg_confidence = total / (100 * n), field_ratio = min(n / ideal, 1)
calculate_extraction_accuracy(extracted_fields) ==
    IF extracted_fields = <<>>
    THEN Fraction(0, 1)
    ELSE LET n == Len(extracted_fields)
             total_confidence == SumConfidence(extracted_fields)
         IN  Fraction(7 * total_confidence * IdealFieldCount
                          + 3 * Min(n, IdealFieldCount) * 100 * n,
                      10 * 100 * n * IdealFieldCount)

\* (extracted_fields is computed once)
extract_from_document(doc_id, content, document_type) ==
    CHOOSE result \in
        { [document_id |-> doc_id,
           extracted_fields |-> extracted_fields,
           extraction_accuracy |-> calculate_extraction_accuracy(extracted_fields)] :
          extracted_fields \in {extract_fields_by_type(content, document_type)} } : TRUE

\* _extract_text_from_document for a path that does not end in ".txt":
\* "模拟文档内容来自: {document_path}\n患者：张三\n诊断：急性阑尾炎\n入院日期：2023年10月5日
\*  \n出院日期：2023年10月10日\n医院：XX市人民医院\n主治医师：李医生\n发票号码：12345678
\*  \n发票金额：¥5000.00\n开票日期：2023年10月10日"
ExtractorPlaceholderText(document_path) ==
    <<"u6A21", "u62DF", "u6587", "u6863", "u5185", "u5BB9", "u6765", "u81EA", ":", " ">>
    \o document_path \o
    <<"\n", "u60A3", "u8005", "uFF1A", "u5F20", "u4E09",
      "\n", "u8BCA", "u65AD", "uFF1A", "u6025", "u6027", "u9611", "u5C3E", "u708E",
      "\n", "u5165", "u9662", "u65E5", "u671F", "uFF1A", "2", "0", "2", "3", "u5E74", "1", "0", "u6708", "5", "u65E5",
      "\n", "u51FA", "u9662", "u65E5", "u671F", "uFF1A", "2", "0", "2", "3", "u5E74", "1", "0", "u6708", "1", "0", "u65E5",
      "\n", "u533B", "u9662", "uFF1A", "X", "X", "u5E02", "u4EBA", "u6C11", "u533B", "u9662",
      "\n", "u4E3B", "u6CBB", "u533B", "u5E08", "uFF1A", "u674E", "u533B", "u751F",
      "\n", "u53D1", "u7968", "u53F7", "u7801", "uFF1A", "1", "2", "3", "4", "5", "6", "7", "8",
      "\n", "u53D1", "u7968", "u91D1", "u989D", "uFF1A", "u00A5", "5", "0", "0", "0", ".", "0", "0",
      "\n", "u5F00", "u7968", "u65E5", "u671F", "uFF1A", "2", "0", "2", "3", "u5E74", "1", "0", "u6708", "1", "0", "u65E5">>

\* a claim id as it appears in a path (ids are small numbers in the model)
IdText(claim_id) == <<(<<"0", "1", "2", "3", "4", "5", "6", "7", "8", "9">>)[claim_id + 1]>>

\* (path, type) of the documents of a claim: the same three for every claim
get_claim_documents_with_types(claim_id) ==
    LET dir == <<"/", "t", "m", "p", "/", "c", "l", "a", "i", "m", "s", "/">> \o IdText(claim_id)
    IN  << <<dir \o <<"/", "m", "e", "d", "i", "c", "a", "l", "_", "r", "e", "c", "o", "r", "d", ".", "p", "d", "f">>,
             "medical_record">>,
           <<dir \o <<"/", "i", "n", "v", "o", "i", "c", "e", ".", "p", "d", "f">>,
             "invoice">>,
           <<dir \o <<"/", "c", "o", "n", "t", "r", "a", "c", "t", ".", "p", "d", "f">>,
             "insurance_contract">> >>

extract_claim_information(claim_id) ==
    LET documents_info == get_claim_documents_with_types(claim_id)
    IN  [i \in 1..Len(documents_info) |->
            extract_from_document(<<"uuid4", i>>,
                                  ExtractorPlaceholderText(documents_info[i][1]),
                                  documents_info[i][2])]

(***************************************************************************)
(* Inputs of the evaluator: merged field maps and policies                 *)
(***************************************************************************)

\* one entry of a merged field map
Entry(name, v) == name :> [value |-> v, confidence |-> ExtractedConfidence]

\* A policy handed in by a caller, beside the two of policy_terms_db: labels
\* with upper-case letters, a low annual limit, a self-pay ratio of 0.25.
CallerPolicy ==
    [name |-> <<"S", "p", "o", "r", "t">>,
     coverage |-> << <<"u6ED1", "u96EA">> >>,                          \* 滑雪
     exclusions |-> << <<"S", "k", "i">>, <<"u65E2", "u5F80", "u75C7">> >>,  \* Ski, 既往症
     limits |-> [annual_limit |-> 1000, self_pay_ratio |-> 25],
     waiting_period |-> 7]

Policies ==
    {policy_terms_db.health_insurance_basic, policy_terms_db.accident_insurance,
     CallerPolicy}

DiagnosisValues ==
    { <<>>,
      <<"u9611", "u5C3E", "u708E">>,                                   \* 阑尾炎
      <<"u65E2", "u5F80", "u75C7">>,                                   \* 既往症
      <<"u65E2", "u5F80", "u75C7", "u7259", "u79D1", "u6CBB", "u7597">>,  \* 既往症牙科治疗
      <<"u65E9", "u5B55">>,                                            \* 早孕
      <<"u80BA", "u90E8", "u611F", "u67D3">>,                          \* 肺部感染
      <<"S", "K", "I", "u4E8B", "u6545">>,                             \* SKI事故
      <<"u9152", "u9A7E">> }                                           \* 酒驾

TreatmentValues ==
    { <<"u7F8E", "u5BB9", "u624B", "u672F", "u7259", "u79D1", "u6CBB", "u7597">>,  \* 美容手术牙科治疗
      <<"u65E2", "u5F80", "u75C7", "s", "k", "i", "u8BAD", "u7EC3">> }  \* 既往症ski训练

InvoiceAmountValues ==
    { <<"u00A5", "2", "5", "0", "0", "0", ".", "0", "0">>,             \* ¥25000.00
      <<"uFFE5", "1", ",", "2", "3", "4", ".", "5">>,                  \* ￥1,234.5
      <<"0", ".", "9", "5">>,                                          \* 0.95
      <<"1", "5", "0", "0", "0", "0">>,                                \* 150000
      <<"2", "0", "0", "0", "0">>,                                     \* 20000
      <<"N", "/", "A">> }                                              \* N/A

\* The fields only the risk rules read.
RiskFieldMaps ==
    { [k \in {} |-> None],
      Entry("gender", <<"u5973">>) @@ Entry("age", <<"1", "7">>),      \* 女, 17
      Entry("gender", <<"u5973">>) @@ Entry("age", <<"1", "8">>),      \* 女, 18
      Entry("gender", <<"u7537">>) @@ Entry("age", <<"1", "7">>)       \* 男, 17
        @@ Entry("medications", <<"u5934", "u5B62">>),                 \* 头孢
      Entry("gender", <<"u5973">>)                                     \* 女, 2008年11月8日
        @@ Entry("birth_date", <<"2", "0", "0", "8", "u5E74", "1", "1", "u6708", "8", "u65E5">>),
      Entry("gender", <<"u5973">>) @@ Entry("age", <<"N", "/", "A">>)  \* 女, N/A, 2008年13月1日
        @@ Entry("birth_date", <<"2", "0", "0", "8", "u5E74", "1", "3", "u6708", "1", "u65E5">>),
      Entry("gender", <<"u5973">>)                                     \* 女, 2010-5-1
        @@ Entry("birth_date", <<"2", "0", "1", "0", "-", "5", "-", "1">>),
      Entry("medical_history", <<"u9AD8", "u8840", "u538B", ",", "u65E9", "u5B55">>)  \* 高血压,早孕
        @@ Entry("medications", <<"u6297", "u751F", "u7D20">>) }       \* 抗生素

Optionally(name, values) == {[k \in {} |-> None]} \cup {Entry(name, v) : v \in values}

EvaluateInputs ==
    { [kind |-> "evaluate", fields |-> d @@ t @@ a @@ r, policy |-> p] :
        d \in Optionally("diagnosis", DiagnosisValues),
        t \in Optionally("treatment_details", TreatmentValues),
        a \in Optionally("invoice_amount", InvoiceAmountValues),
        r \in RiskFieldMaps,
        p \in Policies }

\* the fields only the risk rules read
RiskOnlyFields == {"gender", "age", "birth_date", "medical_history", "medications"}

\* field maps whose risk-only fields are replaced after a first evaluation
RiskChangeInputs ==
    { [kind |-> "evaluate_changed", fields |-> d @@ t @@ a @@ r, policy |-> p,
       changed |-> FALSE] :
        d \in Optionally("diagnosis", {<<"u9611", "u5C3E", "u708E">>,          \* 阑尾炎
                                       <<"u65E9", "u5B55">>,                   \* 早孕
                                       <<"u80BA", "u90E8", "u611F", "u67D3">>}),  \* 肺部感染
        t \in Optionally("treatment_details",
                         {<<"u7F8E", "u5BB9", "u624B", "u672F", "u7259", "u79D1", "u6CBB", "u7597">>}),
        a \in Optionally("invoice_amount", {<<"u00A5", "2", "5", "0", "0", "0", ".", "0", "0">>,  \* ¥25000.00
                                            <<"2", "0", "0", "0", "0">>}),                  \* 20000
        r \in { [k \in {} |-> None],
                Entry("gender", <<"u7537">>) @@ Entry("age", <<"1", "7">>)
                  @@ Entry("medications", <<"u5934", "u5B62">>) },
        p \in Policies }

\* the first k keywords of a document type, each followed by a blank
RECURSIVE KeywordText(_, _)
KeywordText(doc_type, k) ==
    IF k = 0 THEN <<>>
    ELSE KeywordText(doc_type, k - 1) \o keyword_mapping[doc_type][k] \o <<" ">>

\* texts that hold no keyword: "claim form", "门 诊 Record", "发 票"
PlainTexts ==
    { <<"c", "l", "a", "i", "m", " ", "f", "o", "r", "m">>,
      <<"u95E8", " ", "u8BCA", " ", "R", "e", "c", "o", "r", "d">>,
      <<"u53D1", " ", "u7968">> }

\* texts to classify: texts without keywords, and up to all keywords of one
\* type, alone or after a text holding keywords of other types (发票 金额,
\* 保险合同)
ClassifyInputs ==
    {[kind |-> "classify", content |-> c] : c \in PlainTexts} \cup
    UNION { { [kind |-> "classify", content |-> before \o KeywordText(t, k)] :
                k \in 0..Len(keyword_mapping[t]),
                before \in { <<>>,
                             <<"u53D1", "u7968", " ", "u91D1", "u989D", " ">>,
                             <<"u4FDD", "u9669", "u5408", "u540C", " ">> } } :
            t \in DOMAIN keyword_mapping }

\* texts to score, before a keyword is added: "", "门", "诊断 门", "断", "件",
\* "险", "发票 金额 "
ScoreTexts ==
    { <<>>,
      <<"u95E8">>,
      <<"u8BCA", "u65AD", " ", "u95E8">>,
      <<"u65AD">>,
      <<"u4EF6">>,
      <<"u9669">>,
      <<"u53D1", "u7968", " ", "u91D1", "u989D", " ">> }

\* a text and the document type whose score is taken; added tells which
\* keyword of the type was added to which text, None before any is
ScoreInputs ==
    { [kind |-> "score", content |-> c, doc_type |-> t, added |-> None] :
        c \in ScoreTexts, t \in DOMAIN keyword_mapping }

\* texts to extract from
ExtractTexts ==
    { <<>>,
      ExtractorPlaceholderText(<<"/", "t", "m", "p", "/", "a", ".", "p", "d", "f">>),
      \* "患者：  张三 \n诊断:阑尾炎"
      <<"u60A3", "u8005", "uFF1A", " ", " ", "u5F20", "u4E09", " ", "\n",
        "u8BCA", "u65AD", ":", "u9611", "u5C3E", "u708E">>,
      \* "账号： \n户名：李四"
      <<"u8D26", "u53F7", "uFF1A", " ", "\n", "u6237", "u540D", "uFF1A", "u674E", "u56DB">>,
      \* "发票号：ab12 金额: ￥1200.50 日期：2024-1-5"
      <<"u53D1", "u7968", "u53F7", "uFF1A", "a", "b", "1", "2", " ",
        "u91D1", "u989D", ":", " ", "uFFE5", "1", "2", "0", "0", ".", "5", "0", " ",
        "u65E5", "u671F", "uFF1A", "2", "0", "2", "4", "-", "1", "-", "5">>,
      \* "保单号：P2024 保额：$5000"
      <<"u4FDD", "u5355", "u53F7", "uFF1A", "P", "2", "0", "2", "4", " ",
        "u4FDD", "u989D", "uFF1A", "$", "5", "0", "0", "0">> }

ExtractInputs ==
    { [kind |-> "extract", content |-> c, document_type |-> t] :
        c \in ExtractTexts, t \in DOMAIN field_definitions }

\* documents whose extraction results are merged
MaxDocuments == 2

\* fields a document may hold: two names, each with two values of different
\* confidence (阑尾炎 0.9, 既往症 0.5; 100 0.9, 200 0.5)
MergeFieldValues ==
    { ExtractedField("diagnosis", <<"u9611", "u5C3E", "u708E">>, 90),
      ExtractedField("diagnosis", <<"u65E2", "u5F80", "u75C7">>, 50),
      ExtractedField("invoice_amount", <<"1", "0", "0">>, 90),
      ExtractedField("invoice_amount", <<"2", "0", "0">>, 50) }

\* the extraction result of a document with the given fields
ResultOf(extracted_fields) ==
    [document_id |-> <<"uuid4", 0>>,
     extracted_fields |-> extracted_fields,
     extraction_accuracy |-> calculate_extraction_accuracy(extracted_fields)]

\* documents with no, one or two fields
MergeDocuments ==
    {ResultOf(<<>>)}
      \cup {ResultOf(<<f>>) : f \in MergeFieldValues}
      \cup {ResultOf(<<f, g>>) : f \in MergeFieldValues, g \in MergeFieldValues}

MergeInputs ==
    UNION { { [kind |-> "merge", extraction_results |-> rs] :
                rs \in [1..n -> MergeDocuments] } : n \in 0..MaxDocuments }

\* the date of the first evaluation: 2026-11-03
FirstDay == ToOrdinal(2026, 11, 3)

\* days the clock may advance while a claim is evaluated again
MaxDays == 1

\* a response: the claim id of the request and the HTTP status code
Response(claim_id, status_code) == [claim_id |-> claim_id, status_code |-> status_code]
NoResponse == [claim_id |-> 0, status_code |-> 0]

(***************************************************************************)
(* The components as functions of their inputs: SpecCore                   *)
(***************************************************************************)

CoreInit ==
    /\ core_input \in EvaluateInputs \cup ClassifyInputs \cup ExtractInputs
                       \cup MergeInputs \cup ScoreInputs \cup RiskChangeInputs
    /\ core_output = None
    /\ core_previous = None
    /\ round_tie_up \in BOOLEAN
    /\ now = FirstDay
    /\ claims_storage = [c \in {} |-> None]
    /\ tasks = EmptyBag
    /\ response = NoResponse

\* evaluate(fields, policy), run now
EvaluateStep ==
    /\ core_input.kind = "evaluate"
    /\ core_output' = Some(Evaluate(core_input.fields, core_input.policy, now,
                                    round_tie_up))
    /\ core_previous' = core_output
    /\ UNCHANGED <<core_input, round_tie_up, now, store_vars>>

\* classify_document on a text
ClassifyStep ==
    /\ core_input.kind = "classify"
    /\ core_output' = Some(classify(<<"uuid4", 0>>, core_input.content))
    /\ core_previous' = core_output
    /\ UNCHANGED <<core_input, round_tie_up, now, store_vars>>

\* extract_from_document on a text of a given type
ExtractStep ==
    /\ core_input.kind = "extract"
    /\ core_output' = Some(extract_from_document(<<"uuid4", 0>>, core_input.content,
                                                  core_input.document_type))
    /\ core_previous' = core_output
    /\ UNCHANGED <<core_input, round_tie_up, now, store_vars>>

\* _merge_extraction_results on a list of extraction results
MergeStep ==
    /\ core_input.kind = "merge"
    /\ core_output' = Some(merge_extraction_results(core_input.extraction_results))
    /\ core_previous' = core_output
    /\ UNCHANGED <<core_input, round_tie_up, now, store_vars>>

\* the scoring loop of _classify_content for one document type
ScoreStep ==
    /\ core_input.kind = "score"
    /\ core_output' = Some([content |-> core_input.content,
                            doc_type |-> core_input.doc_type,
                            score |-> Score(core_input.doc_type, Lower(core_input.content))])
    /\ core_previous' = core_output
    /\ UNCHANGED <<core_input, round_tie_up, now, store_vars>>

\* the text gets one more occurrence of a keyword of the type, in front or at
\* the end, next to the text or a blank apart
AddKeyword ==
    /\ core_input.kind = "score"
    /\ core_input.added = None
    /\ \E i \in 1..Len(keyword_mapping[core_input.doc_type]), in_front \in BOOLEAN, separated \in BOOLEAN :
          LET keyword == keyword_mapping[core_input.doc_type][i]
              blank == IF separated THEN <<" ">> ELSE <<>>
          IN  core_input' =
                  [core_input EXCEPT
                      !.content = IF in_front THEN keyword \o blank \o @
                                  ELSE @ \o blank \o keyword,
                      !.added = Some([keyword |-> i, before |-> core_input.content,
                                      separated |-> separated])]
    /\ UNCHANGED <<core_output, core_previous, round_tie_up, now, store_vars>>

\* evaluate_claim on a field map whose risk-only fields may have been replaced
EvaluateChangedStep ==
    /\ core_input.kind = "evaluate_changed"
    /\ core_output' = Some(Evaluate(core_input.fields, core_input.policy, now,
                                    round_tie_up))
    /\ core_previous' = core_output
    /\ UNCHANGED <<core_input, round_tie_up, now, store_vars>>

\* after an evaluation the risk-only fields of the map are replaced by others;
\* every other field stays
ChangeRiskFields ==
    /\ core_input.kind = "evaluate_changed"
    /\ ~core_input.changed
    /\ core_output # None
    /\ \E r \in RiskFieldMaps :
          LET kept == DOMAIN core_input.fields \ RiskOnlyFields
          IN  core_input' =
                  [core_input EXCEPT
                      !.fields = r @@ [k \in kept |-> core_input.fields[k]],
                      !.changed = TRUE]
    /\ UNCHANGED <<core_output, core_previous, round_tie_up, now, store_vars>>

\* a day passes
Tick ==
    /\ now < FirstDay + MaxDays
    /\ now' = now + 1
    /\ UNCHANGED <<core_vars, store_vars>>

CoreNext ==
    \/ EvaluateStep
    \/ ClassifyStep
    \/ ExtractStep
    \/ MergeStep
    \/ ScoreStep
    \/ AddKeyword
    \/ EvaluateChangedStep
    \/ ChangeRiskFields
    \/ Tick

SpecCore == CoreInit /\ [][CoreNext]_vars

(***************************************************************************)
(* The claim store and its endpoints: api/claims.py (Spec)                 *)
(*                                                                         *)
(* A handler runs to completion without suspending, so it is one step; a   *)
(* background task is added to `tasks` by its request and runs, also as    *)
(* one step, at some later time after the response was sent.               *)
(***************************************************************************)

\* claims uploaded in one behaviour
MaxClaims == 2

\* files in one upload
MaxFiles == 1

\* background tasks added and not yet run
MaxPending == 2

\* ClaimStatus
UPLOADED == "uploaded"
CLASSIFYING == "classifying"
EXTRACTING == "extracting"
EVALUATING == "evaluating"
COMPLETED == "completed"
REJECTED == "rejected"

ClaimStatus == {UPLOADED, CLASSIFYING, EXTRACTING, EVALUATING, COMPLETED, REJECTED}

ClaimIds == 1..MaxClaims

\* file.filename of the i-th uploaded file
Filename(i) == <<"f", "i", "l", "e", (<<"0", "1", "2", "3", "4", "5", "6", "7", "8", "9">>)[i + 1]>>

\* ClaimModel(id, status, documents).dict(); created_at and updated_at default
\* to the time the class was defined
ClaimModel(id, status, documents) ==
    [id |-> id,
     status |-> status,
     documents |-> documents,
     policy_holder |-> None,
     insured_person |-> None,
     incident_date |-> None,
     claim_amount |-> None,
     classification_results |-> None,
     extraction_results |-> None,
     liability_evaluation |-> None,
     created_at |-> FirstDay,
     updated_at |-> FirstDay]

\* what each service returns for a claim
ClassificationResults == [c \in ClaimIds |-> classify_claim_documents(c)]
ExtractionResults == [c \in ClaimIds |-> extract_claim_information(c)]

\* contract_terms of an evaluate request: absent, empty, or some text
ContractTerms == {None, Some(<<>>), Some(<<"a", "c", "c", "i", "d", "e", "n", "t">>)}

PerformClassificationTask(claim_id) == [task |-> "_perform_classification", claim_id |-> claim_id]
PerformExtractionTask(claim_id) == [task |-> "_perform_extraction", claim_id |-> claim_id]

\* raise HTTPException(status_code=404)
NotFound(claim_id) ==
    /\ claim_id \notin DOMAIN claims_storage
    /\ response' = Response(claim_id, 404)
    /\ UNCHANGED <<claims_storage, tasks>>

Init ==
    /\ claims_storage = [c \in {} |-> None]
    /\ tasks = EmptyBag
    /\ response = NoResponse
    /\ core_input = [kind |-> "none"]
    /\ core_output = None
    /\ core_previous = None
    /\ round_tie_up \in BOOLEAN
    /\ now = FirstDay

\* POST /upload
upload_claim_documents(files) ==
    LET claim_id == Cardinality(DOMAIN claims_storage) + 1     \* uuid4(): a new id
        file_paths == [i \in 1..Len(files) |->
                          <<"u", "p", "l", "o", "a", "d", "s", "/">> \o IdText(claim_id)
                              \o <<"/">> \o files[i]]
    IN  /\ claim_id \in ClaimIds
        /\ claims_storage' = (claim_id :> ClaimModel(claim_id, UPLOADED, file_paths))
                                 @@ claims_storage
        /\ response' = Response(claim_id, 200)
        /\ UNCHANGED <<tasks, core_vars, now>>

\* GET /claims/{claim_id}
get_claim(claim_id) ==
    /\ \/ NotFound(claim_id)
       \/ /\ claim_id \in DOMAIN claims_storage
          /\ response' = Response(claim_id, 200)
          /\ UNCHANGED <<claims_storage, tasks>>
    /\ UNCHANGED <<core_vars, now>>

\* POST /classify/{claim_id} making a record for an id it does not find
classify_documents_creating_record(claim_id) ==
    /\ BagCardinality(tasks) < MaxPending
    /\ claims_storage' =
           IF claim_id \in DOMAIN claims_storage
           THEN [claims_storage EXCEPT ![claim_id].status = CLASSIFYING]
           ELSE (claim_id :> ClaimModel(claim_id, CLASSIFYING, <<>>)) @@ claims_storage
    /\ tasks' = tasks (+) SetToBag({PerformClassificationTask(claim_id)})
    /\ response' = Response(claim_id, 200)
    /\ UNCHANGED <<core_vars, now>>

\* POST /classify/{claim_id}
classify_documents(claim_id) ==
    /\ \/ NotFound(claim_id)
       \/ /\ claim_id \in DOMAIN claims_storage
          /\ BagCardinality(tasks) < MaxPending
          /\ claims_storage' = [claims_storage EXCEPT ![claim_id].status = CLASSIFYING]
          /\ tasks' = tasks (+) SetToBag({PerformClassificationTask(claim_id)})
          /\ response' = Response(claim_id, 200)
    /\ UNCHANGED <<core_vars, now>>

\* POST /extract/{claim_id}
extract_information(claim_id) ==
    /\ \/ NotFound(claim_id)
       \/ /\ claim_id \in DOMAIN claims_storage
          /\ BagCardinality(tasks) < MaxPending
          /\ claims_storage' = [claims_storage EXCEPT ![claim_id].status = EXTRACTING]
          /\ tasks' = tasks (+) SetToBag({PerformExtractionTask(claim_id)})
          /\ response' = Response(claim_id, 200)
    /\ UNCHANGED <<core_vars, now>>

\* POST /evaluate/{claim_id} adding the new reasons to those of an earlier
\* evaluation
evaluate_liability_merging(claim_id, contract_terms) ==
    /\ \/ NotFound(claim_id)
       \/ /\ claim_id \in DOMAIN claims_storage
          /\ LET liability_result == evaluate_claim(claim_id, contract_terms, now, round_tie_up)
                 earlier == claims_storage[claim_id].liability_evaluation
                 merged == IF earlier = None THEN liability_result
                           ELSE [liability_result EXCEPT
                                    !.evaluation_reasons = earlier[1].evaluation_reasons \o @]
             IN  claims_storage' =
                     [claims_storage EXCEPT ![claim_id].liability_evaluation = Some(merged),
                                            ![claim_id].status = COMPLETED]
          /\ response' = Response(claim_id, 200)
          /\ UNCHANGED tasks
    /\ UNCHANGED <<core_vars, now>>

\* POST /evaluate/{claim_id}: the status is set to evaluating, the evaluator
\* runs, and the result and the status completed are stored, in one step
evaluate_liability(claim_id, contract_terms) ==
    /\ \/ NotFound(claim_id)
       \/ /\ claim_id \in DOMAIN claims_storage
          /\ LET liability_result == evaluate_claim(claim_id, contract_terms, now, round_tie_up)
             IN  claims_storage' =
                     [claims_storage EXCEPT ![claim_id].liability_evaluation = Some(liability_result),
                                            ![claim_id].status = COMPLETED]
          /\ response' = Response(claim_id, 200)
          /\ UNCHANGED tasks
    /\ UNCHANGED <<core_vars, now>>

\* GET /reports/{claim_id}
generate_report(claim_id) ==
    /\ \/ NotFound(claim_id)
       \/ /\ claim_id \in DOMAIN claims_storage
          /\ response' = Response(claim_id, 200)
          /\ UNCHANGED <<claims_storage, tasks>>
    /\ UNCHANGED <<core_vars, now>>

\* _perform_classification dropping the evaluation made from earlier results
perform_classification_clearing_evaluation(claim_id) ==
    /\ BagIn(PerformClassificationTask(claim_id), tasks)
    /\ tasks' = tasks (-) SetToBag({PerformClassificationTask(claim_id)})
    /\ claims_storage' =
           [claims_storage EXCEPT ![claim_id].classification_results =
                                      Some(ClassificationResults[claim_id]),
                                  ![claim_id].liability_evaluation = None,
                                  ![claim_id].status = EXTRACTING]
    /\ UNCHANGED <<response, core_vars, now>>

\* _perform_classification, the try block completing
perform_classification(claim_id) ==
    /\ BagIn(PerformClassificationTask(claim_id), tasks)
    /\ tasks' = tasks (-) SetToBag({PerformClassificationTask(claim_id)})
    /\ claims_storage' =
           [claims_storage EXCEPT ![claim_id].classification_results =
                                      Some(ClassificationResults[claim_id]),
                                  ![claim_id].status = EXTRACTING]
    /\ UNCHANGED <<response, core_vars, now>>

\* _perform_classification, the service raising: the except block
perform_classification_fails(claim_id) ==
    /\ BagIn(PerformClassificationTask(claim_id), tasks)
    /\ tasks' = tasks (-) SetToBag({PerformClassificationTask(claim_id)})
    /\ claims_storage' = [claims_storage EXCEPT ![claim_id].status = REJECTED]
    /\ UNCHANGED <<response, core_vars, now>>

\* _perform_extraction writing the results and the status to every stored claim
perform_extraction_in_every_claim(claim_id) ==
    /\ BagIn(PerformExtractionTask(claim_id), tasks)
    /\ tasks' = tasks (-) SetToBag({PerformExtractionTask(claim_id)})
    /\ claims_storage' =
           [c \in DOMAIN claims_storage |->
               [claims_storage[c] EXCEPT !.extraction_results =
                                             Some(ExtractionResults[claim_id]),
                                         !.status = EVALUATING]]
    /\ UNCHANGED <<response, core_vars, now>>

\* _perform_extraction, the try block completing
perform_extraction(claim_id) ==
    /\ BagIn(PerformExtractionTask(claim_id), tasks)
    /\ tasks' = tasks (-) SetToBag({PerformExtractionTask(claim_id)})
    /\ claims_storage' =
           [claims_storage EXCEPT ![claim_id].extraction_results =
                                      Some(ExtractionResults[claim_id]),
                                  ![claim_id].status = EVALUATING]
    /\ UNCHANGED <<response, core_vars, now>>

\* _perform_extraction, the service raising: the except block
perform_extraction_fails(claim_id) ==
    /\ BagIn(PerformExtractionTask(claim_id), tasks)
    /\ tasks' = tasks (-) SetToBag({PerformExtractionTask(claim_id)})
    /\ claims_storage' = [claims_storage EXCEPT ![claim_id].status = REJECTED]
    /\ UNCHANGED <<response, core_vars, now>>

Upload == \E n \in 1..MaxFiles : upload_claim_documents([i \in 1..n |-> Filename(i)])
GetClaim == \E c \in ClaimIds : get_claim(c)
ClassifyDocuments == \E c \in ClaimIds : classify_documents(c)
ExtractInformation == \E c \in ClaimIds : extract_information(c)
EvaluateLiability == \E c \in ClaimIds, t \in ContractTerms : evaluate_liability(c, t)
GenerateReport == \E c \in ClaimIds : generate_report(c)
PerformClassification == \E c \in ClaimIds : perform_classification(c)
PerformClassificationFails == \E c \in ClaimIds : perform_classification_fails(c)
PerformExtraction == \E c \in ClaimIds : perform_extraction(c)
PerformExtractionFails == \E c \in ClaimIds : perform_extraction_fails(c)

Next ==
    \/ Upload
    \/ GetClaim
    \/ ClassifyDocuments
    \/ ExtractInformation
    \/ EvaluateLiability
    \/ GenerateReport
    \/ PerformClassification
    \/ PerformClassificationFails
    \/ PerformExtraction
    \/ PerformExtractionFails

Spec == Init /\ [][Next]_vars

(***************************************************************************)
(* Properties of the evaluator                                             *)
(***************************************************************************)

Evaluated == core_input.kind = "evaluate" /\ core_output # None
LastEvaluation == core_output[1]

Abs(x) == IF x < 0 THEN -x ELSE x

\* the number of triggered risk rules an evaluation reports in its reasons
RiskCount(e) ==
    LET rs == e.evaluation_reasons
    IN IF \E i \in 1..Len(rs) : rs[i][1] = "risks"
       THEN rs[CHOOSE i \in 1..Len(rs) : rs[i][1] = "risks"][2]
       ELSE 0

IssueCount(e) ==
    Cardinality({i \in 1..Len(e.evaluation_reasons) :
                    e.evaluation_reasons[i][1] = "issue"})

DiagnosisGiven(fields) ==
    "diagnosis" \in DOMAIN fields /\ fields["diagnosis"].value # <<>>

Yuan25000 == <<"u00A5", "2", "5", "0", "0", "0", ".", "0", "0">>   \* ¥25000.00
Yuan1234 == <<"uFFE5", "1", ",", "2", "3", "4", ".", "5">>         \* ￥1,234.5

\* C1: whenever an evaluation is not covered or has an exclusion factor, its
\* recommended payout is 0, whatever the invoice amount.
C1_NoPayoutWhenExcluded ==
    Evaluated =>
        ((~LastEvaluation.coverage_applicable
          \/ LastEvaluation.exclusion_factors # <<>>)
         => LastEvaluation.recommended_payout = 0)

\* a covered claim with an exclusion factor and an invoice of 25000 is paid 0
C1_Witness ==
    /\ Evaluated
    /\ LastEvaluation.coverage_applicable
    /\ LastEvaluation.exclusion_factors # <<>>
    /\ FieldValue(core_input.fields, "invoice_amount", <<>>) = Yuan25000
    /\ LastEvaluation.recommended_payout = 0

\* C5: two evaluations of the same fields and policy give the same result,
\* whenever they are run.
C5_EvaluateIsPure ==
    (Evaluated /\ core_previous # None) => core_previous = core_output

\* C6: confidence is 0.9 - 0.3 (not covered) - 0.2 per exclusion factor - 0.1
\* per triggered risk rule, floored at 0.1; a missing diagnosis with no other
\* deduction gives 0.6.
C6_Confidence ==
    Evaluated =>
        LET e == LastEvaluation
            raw == 90 - (IF e.coverage_applicable THEN 0 ELSE 30)
                      - 20 * Len(e.exclusion_factors) - 10 * RiskCount(e)
        IN /\ e.confidence = (IF raw < 10 THEN 10 ELSE raw)
           /\ e.confidence >= 10
           /\ (~DiagnosisGiven(core_input.fields) /\ e.exclusion_factors = <<>>
               /\ RiskCount(e) = 0) => e.confidence = 60

\* deductions of more than 0.8 are floored at 0.1
C6_Witness ==
    /\ Evaluated
    /\ 90 - (IF LastEvaluation.coverage_applicable THEN 0 ELSE 30)
          - 20 * Len(LastEvaluation.exclusion_factors)
          - 10 * RiskCount(LastEvaluation) < 10
    /\ LastEvaluation.confidence = 10

\* C8: coverage_applicable is true exactly when the fields hold a non-empty
\* diagnosis, whatever the policy; otherwise it is false with one issue.
C8_CoverageIsDiagnosisPresence ==
    Evaluated =>
        /\ LastEvaluation.coverage_applicable = DiagnosisGiven(core_input.fields)
        /\ \A p \in Policies :
               check_coverage(core_input.fields, p).is_covered
                   = DiagnosisGiven(core_input.fields)
        /\ IssueCount(LastEvaluation)
               = (IF DiagnosisGiven(core_input.fields) THEN 0 ELSE 1)

\* a diagnosis field with an empty value is not covered
C8_Witness ==
    /\ Evaluated
    /\ "diagnosis" \in DOMAIN core_input.fields
    /\ core_input.fields["diagnosis"].value = <<>>
    /\ ~LastEvaluation.coverage_applicable
    /\ IssueCount(LastEvaluation) = 1

\* C9: a covered claim with no exclusion is paid the invoice amount times
\* (1 - self-pay ratio), capped at the annual limit, rounded to cents.
C9_Payout ==
    (Evaluated /\ LastEvaluation.coverage_applicable
     /\ LastEvaluation.exclusion_factors = <<>>) =>
        LET n == InvoiceNumber(core_input.fields)
            amount == IF n = NoNumber THEN [num |-> 0, fd |-> 0] ELSE n
            limits == core_input.policy.limits
            ratio == IF "self_pay_ratio" \in DOMAIN limits
                     THEN limits["self_pay_ratio"] ELSE 0
            capped == "annual_limit" \in DOMAIN limits
            scale == Pow10(amount.fd)
            exact == amount.num * (100 - ratio)      \* cents, times scale
            p == LastEvaluation.recommended_payout
        IN /\ p >= 0
           /\ capped => p <= limits["annual_limit"] * 100
           /\ IF capped /\ exact >= limits["annual_limit"] * 100 * scale
              THEN p = limits["annual_limit"] * 100
              ELSE 2 * Abs(p * scale - exact) <= scale
           /\ n = NoNumber => p = 0
           /\ (FieldValue(core_input.fields, "invoice_amount", <<>>) = Yuan25000
               /\ core_input.policy = policy_terms_db.health_insurance_basic)
              => p = 2250000
           /\ (FieldValue(core_input.fields, "invoice_amount", <<>>) = Yuan1234
               /\ core_input.policy = policy_terms_db.accident_insurance)
              => p = 123450

\* 25000 under the default policy is paid 22500
C9_Witness ==
    /\ Evaluated
    /\ LastEvaluation.coverage_applicable
    /\ LastEvaluation.exclusion_factors = <<>>
    /\ FieldValue(core_input.fields, "invoice_amount", <<>>) = Yuan25000
    /\ core_input.policy = policy_terms_db.health_insurance_basic
    /\ LastEvaluation.recommended_payout = 2250000

EqualIgnoringCase(a, b) ==
    Len(a) = Len(b) /\ \A i \in 1..Len(a) : LowerChar(a[i]) = LowerChar(b[i])

OccursIgnoringCase(label, text) ==
    \E i \in 0..(Len(text) - Len(label)) :
        EqualIgnoringCase(SubSeq(text, i + 1, i + Len(label)), label)

LabelApplies(label, fields) ==
    \/ OccursIgnoringCase(label, FieldValue(fields, "diagnosis", <<>>))
    \/ OccursIgnoringCase(label, FieldValue(fields, "treatment_details", <<>>))

\* C10: exclusion_factors holds exactly the policy's exclusion labels that
\* occur, ignoring case, in the diagnosis or the treatment details, each once,
\* in the order of the policy's list.
C10_ExclusionFactors ==
    Evaluated =>
        LET labels == core_input.policy.exclusions
            got == LastEvaluation.exclusion_factors
        IN /\ \A i \in 1..Len(labels) :
                  Cardinality({j \in 1..Len(got) : got[j] = labels[i]})
                      = (IF LabelApplies(labels[i], core_input.fields) THEN 1 ELSE 0)
           /\ \A j \in 1..Len(got) : \E i \in 1..Len(labels) : got[j] = labels[i]
           /\ \A j, k \in 1..Len(got) :
                  j < k => \E a, b \in 1..Len(labels) :
                               a < b /\ got[j] = labels[a] /\ got[k] = labels[b]

\* a label in both fields, and written in another case than the policy's
C10_Witness ==
    /\ Evaluated
    /\ Len(LastEvaluation.exclusion_factors) = 2
    /\ \E j \in 1..2 :
          /\ OccursIgnoringCase(LastEvaluation.exclusion_factors[j],
                                FieldValue(core_input.fields, "diagnosis", <<>>))
          /\ OccursIgnoringCase(LastEvaluation.exclusion_factors[j],
                                FieldValue(core_input.fields, "treatment_details", <<>>))
    /\ \E j \in 1..2 :
          ~Contains(FieldValue(core_input.fields, "diagnosis", <<>>),
                    LastEvaluation.exclusion_factors[j])
          /\ OccursIgnoringCase(LastEvaluation.exclusion_factors[j],
                                FieldValue(core_input.fields, "diagnosis", <<>>))

(***************************************************************************)
(* Confidence and accuracy values                                          *)
(***************************************************************************)

Classified == core_input.kind = "classify" /\ core_output # None
Extracted == core_input.kind = "extract" /\ core_output # None

\* the fraction f lies in [0, 1]
InUnitInterval(f) == f.d > 0 /\ 0 <= f.n /\ f.n <= f.d

\* C7: every confidence and accuracy value lies in [0, 1]: the classifier's
\* confidence for every text, also one that matches more keywords of a type
\* than the divisor; the confidence of every extracted field (hundredths) and
\* the extraction accuracy for any number of fields; the evaluator's confidence
\* (hundredths).
C7_ConfidenceInUnitInterval ==
    /\ Classified => InUnitInterval(core_output[1].confidence)
    /\ Extracted =>
          /\ InUnitInterval(core_output[1].extraction_accuracy)
          /\ \A i \in 1..Len(core_output[1].extracted_fields) :
                 /\ 0 <= core_output[1].extracted_fields[i].confidence
                 /\ core_output[1].extracted_fields[i].confidence <= 100
    /\ Evaluated => 0 <= LastEvaluation.confidence /\ LastEvaluation.confidence <= 100

\* a text with more keywords of its predicted type than the divisor was classified
C7_Witness ==
    /\ Classified
    /\ Score(core_output[1].predicted_type, Lower(core_input.content)) > ConfidenceDivisor
    /\ core_output[1].confidence = Fraction(ConfidenceDivisor, ConfidenceDivisor)

(***************************************************************************)
(* Properties of the classification                                        *)
(***************************************************************************)

\* keyword i of doc_type occurs in the text, whatever the case
KeywordOccurs(doc_type, i, content) ==
    Contains(Lower(content), Lower(keyword_mapping[doc_type][i]))

NoKeywordOccurs(content) ==
    \A t \in DOMAIN keyword_mapping :
        \A i \in 1..Len(keyword_mapping[t]) : ~KeywordOccurs(t, i, content)

\* the keywords of doc_type that occur in the text
PresenceScore(doc_type, content) ==
    Cardinality({i \in 1..Len(keyword_mapping[doc_type]) : KeywordOccurs(doc_type, i, content)})

\* the place of a document type in the enumeration
EnumIndex(doc_type) == CHOOSE i \in 1..Len(supported_types) : supported_types[i] = doc_type

\* C12: a text in which no keyword of any document type occurs is classified
\* as medical_record with confidence 0.1 and the alternatives accident_report,
\* invoice, identity_card.
C12_DefaultClassification ==
    (Classified /\ NoKeywordOccurs(core_input.content)) =>
        /\ core_output[1].predicted_type = "medical_record"
        /\ core_output[1].confidence.n * 10 = core_output[1].confidence.d
        /\ core_output[1].alternative_types = <<"accident_report", "invoice", "identity_card">>

\* a non-empty text without keywords was classified
C12_Witness ==
    /\ Classified
    /\ core_input.content # <<>>
    /\ NoKeywordOccurs(core_input.content)
    /\ core_output[1].predicted_type = "medical_record"

\* C13: the predicted type has the maximal keyword-presence score and is the
\* first type of the enumeration with that score; the alternatives are at most
\* three types, none of them the predicted type, in enumeration order.
C13_FirstMaximalType ==
    Classified =>
        LET result == core_output[1]
            alt == result.alternative_types
        IN  /\ \A t \in DOMAIN keyword_mapping :
                  /\ PresenceScore(t, core_input.content)
                        <= PresenceScore(result.predicted_type, core_input.content)
                  /\ PresenceScore(t, core_input.content)
                        = PresenceScore(result.predicted_type, core_input.content)
                     => EnumIndex(result.predicted_type) <= EnumIndex(t)
            /\ Len(alt) <= 3
            /\ \A i \in 1..Len(alt) :
                  /\ alt[i] \in DOMAIN keyword_mapping
                  /\ alt[i] # result.predicted_type
            /\ \A i \in 1..Len(alt), j \in 1..Len(alt) :
                  i < j => EnumIndex(alt[i]) < EnumIndex(alt[j])

\* two types shared the maximal score, at least one keyword each, and the
\* earlier of them was predicted
C13_Witness ==
    /\ Classified
    /\ PresenceScore(core_output[1].predicted_type, core_input.content) > 0
    /\ \E t \in DOMAIN keyword_mapping :
          /\ t # core_output[1].predicted_type
          /\ PresenceScore(t, core_input.content)
                = PresenceScore(core_output[1].predicted_type, core_input.content)
    /\ Len(core_output[1].alternative_types) = 3

\* the type's score was taken before and after a keyword was added
ScoredBeforeAndAfter ==
    /\ core_input.kind = "score"
    /\ core_input.added # None
    /\ core_previous # None
    /\ core_output # None
    /\ core_previous[1].content = core_input.added[1].before
    /\ core_output[1].content = core_input.content

\* the added keyword occurred in the text before
PresentBefore ==
    KeywordOccurs(core_input.doc_type, core_input.added[1].keyword, core_input.added[1].before)

\* C14 as claimed: adding an occurrence of a keyword of a type never decreases
\* the type's score, raises it by exactly 1 if the keyword did not occur
\* before and leaves it as it was if the keyword occurred before.
C14_AddedKeywordRaisesScoreByOne ==
    ScoredBeforeAndAfter =>
        /\ core_output[1].score >= core_previous[1].score
        /\ ~PresentBefore => core_output[1].score = core_previous[1].score + 1
        /\ PresentBefore => core_output[1].score = core_previous[1].score

\* C14: adding an occurrence of a keyword of a type in front of a text or at
\* its end never decreases the type's score and raises it by at least 1 if the
\* keyword did not occur before; with a blank between the text and the
\* keyword the score rises by exactly 1 if the keyword did not occur before
\* and by 0 if it did.
C14_AddedKeywordNeverLowersScore ==
    ScoredBeforeAndAfter =>
        /\ core_output[1].score >= core_previous[1].score
        /\ ~PresentBefore => core_output[1].score >= core_previous[1].score + 1
        /\ core_input.added[1].separated =>
              core_output[1].score = core_previous[1].score + (IF PresentBefore THEN 0 ELSE 1)

\* a keyword that did not occur was added next to the text and the score rose by 2
C14_Witness ==
    /\ ScoredBeforeAndAfter
    /\ ~PresentBefore
    /\ ~core_input.added[1].separated
    /\ core_output[1].score = core_previous[1].score + 2

(***************************************************************************)
(* Properties of the extraction                                            *)
(***************************************************************************)

\* the place of a field name in the definitions of a document type
DefinitionIndex(document_type, field_name) ==
    CHOOSE i \in 1..Len(field_definitions[document_type]) :
        field_definitions[document_type][i].name = field_name

\* C15: every extracted field has a value that is not empty after trimming
\* (a field whose first match is empty or blank once trimmed is left out), and
\* the fields stand in the order of the field definitions, at most one for
\* each definition.
C15_ExtractedValuesNonEmpty ==
    Extracted =>
        LET fields == core_output[1].extracted_fields
            defs == field_definitions[core_input.document_type]
        IN  /\ \A i \in 1..Len(fields) :
                  /\ Strip(fields[i].field_value) # <<>>
                  /\ \E d \in 1..Len(defs) : defs[d].name = fields[i].field_name
            /\ \A i \in 1..Len(fields), j \in 1..Len(fields) :
                  i < j => DefinitionIndex(core_input.document_type, fields[i].field_name)
                              < DefinitionIndex(core_input.document_type, fields[j].field_name)

(***************************************************************************)
(* Risk rules and payout                                                   *)
(***************************************************************************)

\* core_previous and core_output are evaluations of two field maps that differ
\* at most in risk-only fields
EvaluatedBeforeAndAfterChange ==
    /\ core_input.kind = "evaluate_changed"
    /\ core_input.changed
    /\ core_previous # None
    /\ core_output # None

\* the names of the fired rules an evaluation lists in its reasons
RiskNames(e) ==
    LET rs == e.evaluation_reasons
    IN IF \E i \in 1..Len(rs) : rs[i][1] = "risks"
       THEN rs[CHOOSE i \in 1..Len(rs) : rs[i][1] = "risks"][3]
       ELSE <<>>

RuleIndex(name) == CHOOSE i \in 1..Len(risk_rules) : risk_rules[i].name = name

InRuleOrder(names) ==
    /\ \A i \in 1..Len(names) : \E r \in 1..Len(risk_rules) : risk_rules[r].name = names[i]
    /\ \A i \in 1..Len(names), j \in 1..Len(names) :
          i < j => RuleIndex(names[i]) < RuleIndex(names[j])

\* C18: two field maps that differ only in risk-only fields (gender, age,
\* birth_date, medical_history, medications) get the same coverage_applicable,
\* exclusion_factors, recommended_payout (and coverage_limit); the fired rules
\* are listed in the order of the rule list.
C18_RiskRulesDoNotAffectPayout ==
    EvaluatedBeforeAndAfterChange =>
        /\ core_output[1].coverage_applicable = core_previous[1].coverage_applicable
        /\ core_output[1].exclusion_factors = core_previous[1].exclusion_factors
        /\ core_output[1].recommended_payout = core_previous[1].recommended_payout
        /\ core_output[1].coverage_limit = core_previous[1].coverage_limit
        /\ InRuleOrder(RiskNames(core_output[1]))
        /\ InRuleOrder(RiskNames(core_previous[1]))

\* one map fired no rule, the other two rules or more, and both evaluations
\* recommend the same payout above 0
C18_Witness ==
    /\ EvaluatedBeforeAndAfterChange
    /\ RiskNames(core_previous[1]) = <<>>
    /\ Len(RiskNames(core_output[1])) >= 2
    /\ core_output[1].confidence # core_previous[1].confidence
    /\ core_output[1].recommended_payout > 0
    /\ core_output[1].recommended_payout = core_previous[1].recommended_payout

(***************************************************************************)
(* Properties of the merge                                                 *)
(***************************************************************************)

Merged == core_input.kind = "merge" /\ core_output # None

\* the places <<document, field>> of the fields called name
PlacesOf(name, rs) ==
    {<<d, i>> \in (1..Len(rs)) \X (1..2) :
        /\ i <= Len(rs[d].extracted_fields)
        /\ rs[d].extracted_fields[i].field_name = name}

\* the last of them: in the last document that has one, the last field
LastPlace(name, rs) ==
    CHOOSE p \in PlacesOf(name, rs) :
        \A q \in PlacesOf(name, rs) : q[1] < p[1] \/ (q[1] = p[1] /\ q[2] <= p[2])

\* C11: the merged map has a key for every field name any document produced
\* and no other, and holds for each name the value and the confidence of the
\* last field of that name in the last document that produced it.
C11_MergeLastWriteWins ==
    Merged =>
        LET rs == core_input.extraction_results
            merged == core_output[1]
            names == {n \in {"diagnosis", "invoice_amount"} : PlacesOf(n, rs) # {}}
        IN  /\ DOMAIN merged = names
            /\ \A n \in names :
                  LET f == rs[LastPlace(n, rs)[1]].extracted_fields[LastPlace(n, rs)[2]]
                  IN  merged[n] = [value |-> f.field_value, confidence |-> f.confidence]

\* two documents gave different values for one name and were merged
C11_Witness ==
    /\ Merged
    /\ Len(core_input.extraction_results) = 2
    /\ \E i \in {1, 2}, j \in {1, 2} :
          /\ i <= Len(core_input.extraction_results[1].extracted_fields)
          /\ j <= Len(core_input.extraction_results[2].extracted_fields)
          /\ core_input.extraction_results[1].extracted_fields[i].field_name = "diagnosis"
          /\ core_input.extraction_results[2].extracted_fields[j].field_name = "diagnosis"
          /\ core_input.extraction_results[1].extracted_fields[i].field_value
                # core_input.extraction_results[2].extracted_fields[j].field_value
    /\ "diagnosis" \in DOMAIN core_output[1]

(***************************************************************************)
(* Properties of the claim store                                           *)
(***************************************************************************)

\* the place of a status in the pipeline
Rank(status) ==
    CASE status = UPLOADED -> 1
      [] status = CLASSIFYING -> 2
      [] status = EXTRACTING -> 3
      [] status = EVALUATING -> 4
      [] status = COMPLETED -> 5
      [] status = REJECTED -> 6

\* C2: the status of a claim only moves forward in the order uploaded,
\* classifying, extracting, evaluating, completed, or to rejected; no request
\* and no background task moves it back to an earlier status.
C2_StatusOnlyMovesForward ==
    [][\A c \in DOMAIN claims_storage :
          \/ claims_storage'[c].status = claims_storage[c].status
          \/ claims_storage'[c].status = REJECTED
          \/ /\ claims_storage[c].status # REJECTED
             /\ Rank(claims_storage[c].status) < Rank(claims_storage'[c].status)]_vars

\* background tasks of a claim that were added and have not run
Pending(c) ==
    CopiesIn(PerformClassificationTask(c), tasks) + CopiesIn(PerformExtractionTask(c), tasks)

\* C3: a claim never has two background tasks pending together, and a task
\* that runs finds the status its own request wrote (classifying for the
\* classification task, extracting for the extraction task): nothing that
\* started after the request has written the claim in between.
C3_OneTransitionInFlight ==
    [][\A c \in ClaimIds :
          /\ Pending(c)' <= 1
          /\ perform_classification(c) \/ perform_classification_fails(c)
                => claims_storage[c].status = CLASSIFYING
          /\ perform_extraction(c) \/ perform_extraction_fails(c)
                => claims_storage[c].status = EXTRACTING]_vars

\* C4: a background task that raises leaves the claim rejected and the
\* results of its stage as they were, and a rejected claim stays rejected
\* whatever request or task comes later.
C4_RejectedIsTerminal ==
    [][\A c \in DOMAIN claims_storage :
          /\ perform_classification_fails(c) =>
                /\ claims_storage'[c].status = REJECTED
                /\ claims_storage'[c].classification_results
                       = claims_storage[c].classification_results
          /\ perform_extraction_fails(c) =>
                /\ claims_storage'[c].status = REJECTED
                /\ claims_storage'[c].extraction_results
                       = claims_storage[c].extraction_results
          /\ claims_storage[c].status = REJECTED
                => claims_storage'[c].status = REJECTED]_vars


(***************************************************************************)
(* The pipeline and the claim store                                        *)
(***************************************************************************)

\* C16: a claim is completed only after classification results and
\* extraction results have been stored for it.
C16_CompletedAfterClassificationAndExtraction ==
    \A c \in DOMAIN claims_storage :
        claims_storage[c].status = COMPLETED =>
            /\ claims_storage[c].classification_results # None
            /\ claims_storage[c].extraction_results # None

\* this step is the evaluate request for claim c with contract terms t (what
\* the request leaves in response and status is tested first)
EvaluateRequest(c, t) ==
    /\ response' = Response(c, 200)
    /\ claims_storage'[c].status = COMPLETED
    /\ evaluate_liability(c, t)

\* a request or a background task for claim a takes this step
StepFor(a) ==
    \/ a = Cardinality(DOMAIN claims_storage) + 1 /\ Upload
    \/ get_claim(a)
    \/ classify_documents(a)
    \/ extract_information(a)
    \/ generate_report(a)
    \/ perform_classification(a)
    \/ perform_classification_fails(a)
    \/ perform_extraction(a)
    \/ perform_extraction_fails(a)
    \/ \E t \in ContractTerms : EvaluateRequest(a, t)

\* the stored record of every claim other than a stays as it was
OthersUnchanged(a) ==
    \A b \in DOMAIN claims_storage \ {a} :
        /\ b \in DOMAIN claims_storage'
        /\ claims_storage'[b] = claims_storage[b]

\* C17: a request or background task for claim a (upload, classify, extract,
\* evaluate, report, a task completing or failing) leaves the stored record of
\* every other claim as it was.  (StepFor(a) => OthersUnchanged(a), with the
\* conclusion first.)
C17_ClaimsShareNoState ==
    [][\A a \in ClaimIds : OthersUnchanged(a) \/ ~StepFor(a)]_vars

\* claim 1 went through the whole pipeline while claim 2 was stored, and claim
\* 2 is as it was uploaded
C17_Witness ==
    /\ DOMAIN claims_storage = {1, 2}
    /\ claims_storage[1].status = COMPLETED
    /\ claims_storage[1].classification_results # None
    /\ claims_storage[1].extraction_results # None
    /\ claims_storage[1].liability_evaluation # None
    /\ claims_storage[2].status = UPLOADED
    /\ claims_storage[2].classification_results = None
    /\ claims_storage[2].extraction_results = None
    /\ claims_storage[2].liability_evaluation = None
    /\ response = Response(1, 200)

\* C19: an evaluate request on a stored claim stores exactly the evaluation it
\* computed, whatever evaluation was stored before, and leaves the claim's
\* documents, classification results and extraction results as they were.
C19_ReevaluationReplaces ==
    [][\A c \in DOMAIN claims_storage, t \in ContractTerms :
          EvaluateRequest(c, t) =>
              /\ claims_storage'[c].liability_evaluation
                     = Some(evaluate_claim(c, t, now, round_tie_up))
              /\ claims_storage'[c].documents = claims_storage[c].documents
              /\ claims_storage'[c].classification_results
                     = claims_storage[c].classification_results
              /\ claims_storage'[c].extraction_results
                     = claims_storage[c].extraction_results]_vars

\* a claim that holds an evaluation was sent back to extraction, the
\* extraction has completed, and the claim waits for its next evaluation
C19_Witness ==
    \E c \in DOMAIN claims_storage :
        /\ claims_storage[c].status = EVALUATING
        /\ claims_storage[c].liability_evaluation # None
        /\ claims_storage[c].classification_results # None
        /\ claims_storage[c].extraction_results # None

\* C20: whatever extraction results are stored for a claim and whatever
\* contract_terms was passed, a stored evaluation is not covered, has no
\* exclusion factor, recommends a payout of 0 and has the coverage limit
\* 100000.
C20_EvaluationIgnoresStore ==
    \A c \in DOMAIN claims_storage :
        claims_storage[c].liability_evaluation # None =>
            LET e == claims_storage[c].liability_evaluation[1]
            IN  /\ e.coverage_applicable = FALSE
                /\ e.exclusion_factors = <<>>
                /\ e.recommended_payout = 0
                /\ e.coverage_limit = Some(100000)

\* a claim whose stored extraction results hold a diagnosis and an invoice
\* amount was evaluated
C20_Witness ==
    \E c \in DOMAIN claims_storage :
        /\ claims_storage[c].status = COMPLETED
        /\ claims_storage[c].liability_evaluation # None
        /\ claims_storage[c].extraction_results # None
        /\ LET fields == merge_extraction_results(claims_storage[c].extraction_results[1])
           IN  /\ DiagnosisGiven(fields)
               /\ "invoice_amount" \in DOMAIN fields
        /\ response = Response(c, 200)


\* every completed claim of the store s holds an evaluation
CompletedAreEvaluated(s) ==
    \A c \in DOMAIN s : s[c].status = COMPLETED => s[c].liability_evaluation # None

\* C21: a claim whose status is completed has a stored liability_evaluation,
\* before and after every step, and no step clears a liability_evaluation
\* that is set (or removes the claim that holds it).
C21_CompletedHasEvaluation ==
    [][/\ CompletedAreEvaluated(claims_storage)
       /\ CompletedAreEvaluated(claims_storage')
       /\ \A c \in DOMAIN claims_storage :
             claims_storage[c].liability_evaluation # None =>
                 /\ c \in DOMAIN claims_storage'
                 /\ claims_storage'[c].liability_evaluation # None]_vars

\* an evaluated claim was sent back to classification and the task has
\* completed: the claim is in extraction and still holds its evaluation,
\* while another claim is completed
C21_Witness ==
    \E c \in DOMAIN claims_storage, d \in DOMAIN claims_storage :
        /\ claims_storage[c].status = EXTRACTING
        /\ claims_storage[c].classification_results # None
        /\ claims_storage[c].liability_evaluation # None
        /\ claims_storage[d].status = COMPLETED
        /\ claims_storage[d].liability_evaluation # None


\* this step is a get, classify, extract, evaluate or report request for c
RequestFor(c) ==
    \/ get_claim(c)
    \/ classify_documents(c)
    \/ extract_information(c)
    \/ \E t \in ContractTerms : evaluate_liability(c, t)
    \/ generate_report(c)

\* C22: a get, classify, extract, evaluate or report request for a claim id
\* that was never uploaded answers 404, adds no background task and leaves
\* the claim store as it was, without a record for that id.
C22_UnknownClaimNotFound ==
    [][\A c \in ClaimIds \ DOMAIN claims_storage :
          RequestFor(c) =>
              /\ response' = Response(c, 404)
              /\ tasks' = tasks
              /\ claims_storage' = claims_storage
              /\ c \notin DOMAIN claims_storage']_vars

\* a request for an id that was never uploaded was answered 404 while the
\* store held a claim and a background task was pending
C22_Witness ==
    /\ response.status_code = 404
    /\ response.claim_id \in ClaimIds \ DOMAIN claims_storage
    /\ DOMAIN claims_storage # {}
    /\ tasks # EmptyBag

====
